---- MODULE Spec2Model ----
(***************************************************************************)
(* NLDAS county aggregation (Code/Clean/ENV_NLDAS_Meterology.py).          *)
(*                                                                         *)
(* Numbers.  A Python float is modelled as a pair <<n, d>>: the rational   *)
(* n/d in lowest terms with d > 0, and NaN as <<0, 0>>.  Grid values and   *)
(* monthly county values are integral (d = 1); only np.mean divides.       *)
(* Weights are kept as integers in units of 1/Unit, so that the division   *)
(* by the county area in create_spatial_weight_matrix is exact.            *)
(***************************************************************************)
EXTENDS Integers, Sequences, FiniteSets, TLC

\* ------------------------------------------------------------------ bounds
START_YEAR == 1999
NYears == 2                      \* modelled length of START_YEAR..END_YEAR
END_YEAR == START_YEAR + NYears - 1
NLat == 1                        \* len(ds.lat) of the input grid
NLon == 2                        \* len(ds.lon) of the input grid
MaxArea == 2                     \* largest county area, in area units

Years == START_YEAR..END_YEAR
NCells == NLat * NLon

\* ------------------------------------------------------------------ floats
NaN == <<0, 0>>
IsNaN(x) == x[2] = 0
Num(v) == <<v, 1>>

RECURSIVE GCD(_, _)
GCD(a, b) == IF b = 0 THEN a ELSE GCD(b, a % b)

RECURSIVE LCMUpTo(_)
LCMUpTo(n) == IF n <= 1 THEN 1
              ELSE LET l == LCMUpTo(n - 1) IN (l * n) \div GCD(l, n)

\* weights are stored as multiples of 1/Unit
Unit == LCMUpTo(MaxArea)

RECURSIVE SeqSum(_)
SeqSum(s) == IF s = <<>> THEN 0 ELSE Head(s) + SeqSum(Tail(s))

\* np.sum / np.mean over a non-empty sequence of integral values
NpSum(vals) == Num(SeqSum(vals))
NpMean(vals) == LET s == SeqSum(vals)
                    n == Len(vals)
                    g == GCD(IF s < 0 THEN -s ELSE s, n)
                IN  <<s \div g, n \div g>>

\* --------------------------------------------------------------- sequences
RECURSIVE Flatten(_)
Flatten(ss) == IF ss = <<>> THEN <<>> ELSE Head(ss) \o Flatten(Tail(ss))

\* sorted(S) for a finite set of integers
RECURSIVE Sorted(_)
Sorted(S) == IF S = {} THEN <<>>
             ELSE LET m == CHOOSE x \in S : \A y \in S : x <= y
                  IN  <<m>> \o Sorted(S \ {m})

\* ------------------------------------------------- grid and weight matrix
\* grid_indices as built by the nested lat/lon loop: flat k -> (k div n_lon, k mod n_lon)
GridIndices(nlat, nlon) == [k \in 1..(nlat * nlon) |-> <<(k - 1) \div nlon, (k - 1) % nlon>>]

\* One county of the boundary file: identifier, geometry status, planar area,
\* intersection area with each grid cell (flat order), and the flat index at
\* which county_geom.intersection raises (0: never).
CountyRow(county) ==
    LET n == Len(county.inter) IN
    IF county.geom # "ok"
    THEN [g \in 1..n |-> 0]
    ELSE IF county.raiseAt # 0
    THEN [g \in 1..n |-> IF g < county.raiseAt THEN county.inter[g] * Unit ELSE 0]
    ELSE IF county.area > 0
    THEN [g \in 1..n |-> (county.inter[g] * Unit) \div county.area]
    ELSE [g \in 1..n |-> county.inter[g] * Unit]

\* csr_matrix(dense): row-wise non-zero entries
RECURSIVE CsrRowIdxFrom(_, _)
CsrRowIdxFrom(row, g) ==
    IF g > Len(row) THEN <<>>
    ELSE (IF row[g] # 0 THEN <<g - 1>> ELSE <<>>) \o CsrRowIdxFrom(row, g + 1)
CsrRowIdx(row) == CsrRowIdxFrom(row, 1)

RECURSIVE CsrRowDataFrom(_, _)
CsrRowDataFrom(row, g) ==
    IF g > Len(row) THEN <<>>
    ELSE (IF row[g] # 0 THEN <<row[g]>> ELSE <<>>) \o CsrRowDataFrom(row, g + 1)
CsrRowData(row) == CsrRowDataFrom(row, 1)

RECURSIVE CsrIndptr(_)
CsrIndptr(dense) == IF dense = <<>> THEN <<0>>
                    ELSE LET p == CsrIndptr(SubSeq(dense, 1, Len(dense) - 1))
                         IN  Append(p, p[Len(p)] + Len(CsrRowData(dense[Len(dense)])))

CsrMatrix(dense, ncols) ==
    [data    |-> Flatten([c \in 1..Len(dense) |-> CsrRowData(dense[c])]),
     indices |-> Flatten([c \in 1..Len(dense) |-> CsrRowIdx(dense[c])]),
     indptr  |-> CsrIndptr(dense),
     shape   |-> <<Len(dense), ncols>>]

create_spatial_weight_matrix(gdf, nlat, nlon) ==
    [weight_matrix |-> CsrMatrix([c \in 1..Len(gdf) |-> CountyRow(gdf[c])], nlat * nlon),
     grid_indices  |-> GridIndices(nlat, nlon)]

\* entry (c, j) of a CSR matrix, c 1-based row, j 0-based column
RECURSIVE CsrScan(_, _, _, _)
CsrScan(m, p, hi, j) ==
    IF p > hi THEN 0
    ELSE (IF m.indices[p] = j THEN m.data[p] ELSE 0) + CsrScan(m, p + 1, hi, j)
CsrAt(m, c, j) == CsrScan(m, m.indptr[c] + 1, m.indptr[c + 1], j)

\* ------------------------------------------------------------- the cache
RECURSIVE PairsFlat(_, _)
\* np.array(list of (i, j) tuples): an N x 2 integer array, row-major
PairsFlat(gi, k) ==
    IF k > Len(gi) THEN <<>> ELSE <<gi[k][1], gi[k][2]>> \o PairsFlat(gi, k + 1)

RECURSIVE ArrayRows(_, _, _)
\* [tuple(row) for row in array]
ArrayRows(arr, ncols, r) ==
    IF r > arr.shape[1] THEN <<>>
    ELSE <<SubSeq(arr.flat, (r - 1) * ncols + 1, r * ncols)>> \o ArrayRows(arr, ncols, r + 1)

RECURSIVE PairsFlatSwapped(_, _)
PairsFlatSwapped(gi, k) ==
    IF k > Len(gi) THEN <<>> ELSE <<gi[k][2], gi[k][1]>> \o PairsFlatSwapped(gi, k + 1)

\* np.savez writing every index pair as (col, row)
CacheSaveSwapped(w, gi) ==
    [data |-> w.data, indices |-> w.indices, indptr |-> w.indptr, shape |-> w.shape,
     grid_indices |-> [shape |-> <<Len(gi), 2>>, flat |-> PairsFlatSwapped(gi, 1)]]

\* np.savez(path, data=, indices=, indptr=, shape=, grid_indices=np.array(grid_indices))
CacheSave(w, gi) ==
    [data |-> w.data, indices |-> w.indices, indptr |-> w.indptr, shape |-> w.shape,
     grid_indices |-> [shape |-> <<Len(gi), 2>>, flat |-> PairsFlat(gi, 1)]]

RECURSIVE ArrayRowsReversed(_, _, _)
ArrayRowsReversed(arr, ncols, r) ==
    IF r > arr.shape[1] THEN <<>>
    ELSE << <<arr.flat[r * ncols], arr.flat[(r - 1) * ncols + 1]>> >>
         \o ArrayRowsReversed(arr, ncols, r + 1)

\* a reload that reads each index pair as (col, row)
CacheLoadSwapped(npz) ==
    [weight_matrix |-> [data |-> npz.data, indices |-> npz.indices,
                        indptr |-> npz.indptr, shape |-> npz.shape],
     grid_indices  |-> ArrayRowsReversed(npz.grid_indices, npz.grid_indices.shape[2], 1)]

\* np.load, csr_matrix((data, indices, indptr), shape=shape), [tuple(row) for row in ...]
CacheLoad(npz) ==
    [weight_matrix |-> [data |-> npz.data, indices |-> npz.indices,
                        indptr |-> npz.indptr, shape |-> npz.shape],
     grid_indices  |-> ArrayRows(npz.grid_indices, npz.grid_indices.shape[2], 1)]

\* ---------------------------------------------------------- aggregation
\* a grid vector that reads the nearest cell of the field for an index outside it
GridVectorClamped(grid_data, grid_indices) ==
    [k \in 1..Len(grid_indices) |->
        LET i == IF grid_indices[k][1] < grid_data.shape[1]
                 THEN grid_indices[k][1] ELSE grid_data.shape[1] - 1
            j == IF grid_indices[k][2] < grid_data.shape[2]
                 THEN grid_indices[k][2] ELSE grid_data.shape[2] - 1
        IN  IF IsNaN(grid_data.at[<<i, j>>]) THEN 0 ELSE grid_data.at[<<i, j>>][1]]

\* grid_data: [shape |-> <<rows, cols>>, at |-> [<<i, j>> |-> float]]
GridVector(grid_data, grid_indices) ==
    [k \in 1..Len(grid_indices) |->
        LET i == grid_indices[k][1]
            j == grid_indices[k][2]
        IN  IF i < grid_data.shape[1] /\ j < grid_data.shape[2]
            THEN (IF IsNaN(grid_data.at[<<i, j>>]) THEN 0 ELSE grid_data.at[<<i, j>>][1])
            ELSE 0]

RECURSIVE CsrRowDot(_, _, _, _)
CsrRowDot(m, p, hi, vec) ==
    IF p > hi THEN 0
    ELSE m.data[p] * vec[m.indices[p] + 1] + CsrRowDot(m, p + 1, hi, vec)

CsrRowSum(m, c) == SeqSum(SubSeq(m.data, m.indptr[c] + 1, m.indptr[c + 1]))

\* an aggregator that leaves the counties without weight at the dot product's 0
aggregate_keeping_zero(weight_matrix, grid_data, grid_indices) ==
    LET grid_vector == GridVector(grid_data, grid_indices)
    IN  [c \in 1..weight_matrix.shape[1] |->
            Num(CsrRowDot(weight_matrix, weight_matrix.indptr[c] + 1,
                          weight_matrix.indptr[c + 1], grid_vector))]

\* an aggregator that does not zero the NaN cells before the dot product
aggregate_propagating(weight_matrix, grid_data, grid_indices) ==
    LET grid_vector == GridVector(grid_data, grid_indices)
        cell_nan(k) == LET i == grid_indices[k][1]
                           j == grid_indices[k][2]
                       IN  i < grid_data.shape[1] /\ j < grid_data.shape[2]
                           /\ IsNaN(grid_data.at[<<i, j>>])
    IN  [c \in 1..weight_matrix.shape[1] |->
            IF CsrRowSum(weight_matrix, c) = 0
               \/ \E p \in (weight_matrix.indptr[c] + 1)..weight_matrix.indptr[c + 1] :
                     cell_nan(weight_matrix.indices[p] + 1)
            THEN NaN
            ELSE Num(CsrRowDot(weight_matrix, weight_matrix.indptr[c] + 1,
                               weight_matrix.indptr[c + 1], grid_vector))]

\* an aggregator that also gives NaN to a county all of whose weighted cells
\* are NaN
aggregate_nan_when_empty(weight_matrix, grid_data, grid_indices) ==
    LET grid_vector == GridVector(grid_data, grid_indices)
        cell_nan(k) == LET i == grid_indices[k][1]
                           j == grid_indices[k][2]
                       IN  i < grid_data.shape[1] /\ j < grid_data.shape[2]
                           /\ IsNaN(grid_data.at[<<i, j>>])
    IN  [c \in 1..weight_matrix.shape[1] |->
            IF CsrRowSum(weight_matrix, c) = 0
               \/ \A p \in (weight_matrix.indptr[c] + 1)..weight_matrix.indptr[c + 1] :
                     cell_nan(weight_matrix.indices[p] + 1)
            THEN NaN
            ELSE Num(CsrRowDot(weight_matrix, weight_matrix.indptr[c] + 1,
                               weight_matrix.indptr[c + 1], grid_vector))]

aggregate_to_counties(weight_matrix, grid_data, grid_indices) ==
    LET grid_vector == GridVector(grid_data, grid_indices)
    IN  [c \in 1..weight_matrix.shape[1] |->
            IF CsrRowSum(weight_matrix, c) = 0
            THEN NaN
            ELSE Num(CsrRowDot(weight_matrix, weight_matrix.indptr[c] + 1,
                               weight_matrix.indptr[c + 1], grid_vector))]

\* ------------------------------------------------------ monthly field loader
\* Temperatures are carried in hundredths of a degree: Tair - 273.15
KelvinOffset == 27315

\* ds['Tair'].values[0] - 273.15, cell by cell
Celsius(x) == IF IsNaN(x) THEN NaN ELSE Num(x[1] - KelvinOffset)

\* np.sqrt on the perfect squares the modelled wind components produce
ISqrt(n) == CHOOSE r \in 0..n : r * r <= n /\ n < (r + 1) * (r + 1)

\* np.sqrt(u**2 + v**2), cell by cell
WindSpeed(u, v) == IF IsNaN(u) \/ IsNaN(v) THEN NaN ELSE Num(ISqrt(u[1] * u[1] + v[1] * v[1]))

\* ds['PSurf'].values[0] / 1000, cell by cell (whole kPa in the modelled data)
KiloPascal(x) == IF IsNaN(x) THEN NaN ELSE Num(x[1] \div 1000)

\* Relative humidity, clip(e / es * 100, 0, 100) with e = q p / (0.622 + 0.378 q).
\* exp() is outside the integers: the modelled datasets carry dry air (q = 0),
\* where e = 0 and the clipped value is 0 whatever es is; moist air saturates.
RelHum(q, t, p) ==
    IF IsNaN(q) \/ IsNaN(t) \/ IsNaN(p) THEN NaN
    ELSE IF q[1] <= 0 THEN Num(0) ELSE Num(100)

\* ds: [readable |-> BOOLEAN, vars |-> [source name -> grid array]]; the result
\* is [ok |-> FALSE] for None, else [ok |-> TRUE, data |-> dict], the dict being
\* the list of its <<name, field>> items in insertion order.
\* a loader that leaves every variable out
ItemNever(present, name, field) == <<>>

Item(present, name, field) == IF present THEN << <<name, field>> >> ELSE <<>>

load_nldas_monthly_data(ds) ==
    IF ~ds.readable
    THEN [ok |-> FALSE, data |-> <<>>]
    ELSE LET has(v) == v \in DOMAIN ds.vars IN
         [ok |-> TRUE,
          data |->
             Item(has("Tair"), "tas",
                  [shape |-> ds.vars["Tair"].shape,
                   at |-> [p \in DOMAIN ds.vars["Tair"].at |->
                              Celsius(ds.vars["Tair"].at[p])]])
          \o Item(has("Wind_E") /\ has("Wind_N"), "wind",
                  [shape |-> ds.vars["Wind_E"].shape,
                   at |-> [p \in DOMAIN ds.vars["Wind_E"].at |->
                              WindSpeed(ds.vars["Wind_E"].at[p], ds.vars["Wind_N"].at[p])]])
          \o Item(has("Rainf"), "prcp", ds.vars["Rainf"])
          \o Item(has("Qair") /\ has("Tair") /\ has("PSurf"), "rh",
                  [shape |-> ds.vars["Qair"].shape,
                   at |-> [p \in DOMAIN ds.vars["Qair"].at |->
                              RelHum(ds.vars["Qair"].at[p], ds.vars["Tair"].at[p],
                                     ds.vars["PSurf"].at[p])]])
          \o Item(has("SWdown"), "swrad", ds.vars["SWdown"])
          \o Item(has("LWdown"), "lwrad", ds.vars["LWdown"])
          \o Item(has("PSurf"), "psurf",
                  [shape |-> ds.vars["PSurf"].shape,
                   at |-> [p \in DOMAIN ds.vars["PSurf"].at |->
                              KiloPascal(ds.vars["PSurf"].at[p])]])
          \o Item(has("CAPE"), "cape", ds.vars["CAPE"])
          \o Item(has("PotEvap"), "potevap", ds.vars["PotEvap"])]

\* ------------------------------------------------------------ column names
\* f'{var_name}_{month:02d}' as a sequence of characters
Chars(var) ==
    CASE var = "tas"     -> <<"t", "a", "s">>
      [] var = "wind"    -> <<"w", "i", "n", "d">>
      [] var = "prcp"    -> <<"p", "r", "c", "p">>
      [] var = "rh"      -> <<"r", "h">>
      [] var = "swrad"   -> <<"s", "w", "r", "a", "d">>
      [] var = "lwrad"   -> <<"l", "w", "r", "a", "d">>
      [] var = "psurf"   -> <<"p", "s", "u", "r", "f">>
      [] var = "cape"    -> <<"c", "a", "p", "e">>
      [] var = "potevap" -> <<"p", "o", "t", "e", "v", "a", "p">>

Digit(d) == <<"0", "1", "2", "3", "4", "5", "6", "7", "8", "9">>[d + 1]
Fmt02(m) == <<Digit((m \div 10) % 10), Digit(m % 10)>>
ColName(var, month) == Chars(var) \o <<"_">> \o Fmt02(month)

StartsWith(col, prefix) ==
    Len(col) >= Len(prefix) /\ SubSeq(col, 1, Len(prefix)) = prefix
Contains(col, sub) ==
    \E k \in 1..(Len(col) - Len(sub) + 1) : SubSeq(col, k, k + Len(sub) - 1) = sub

RECURSIVE RowCells(_, _, _, _)
\* the f'{var_name}_{month:02d}' items of one result_row
RowCells(county_data, month, c, k) ==
    IF k > Len(county_data) THEN <<>>
    ELSE << <<ColName(county_data[k][1], month), county_data[k][2][c]>> >>
         \o RowCells(county_data, month, c, k + 1)

\* one result_row of process_nldas_data_by_year for county index c
ResultRow(geoid, y, month, county_data, c) ==
    [GEOID |-> geoid, year |-> y, month |-> month,
     cells |-> RowCells(county_data, month, c, 1)]

\* ------------------------------------------------- annual and seasonal stats
VarList == <<"tas", "wind", "prcp", "rh", "swrad", "lwrad", "psurf", "cape", "potevap">>
SumVars == {"prcp", "potevap"}
SeasonList == <<"DJF", "MAM", "JJA", "SON">>
SeasonMonths(season) ==
    CASE season = "DJF" -> <<12, 1, 2>>
      [] season = "MAM" -> <<3, 4, 5>>
      [] season = "JJA" -> <<6, 7, 8>>
      [] season = "SON" -> <<9, 10, 11>>

InSeq(x, s) == \E k \in 1..Len(s) : s[k] = x

\* a function on 1..n as the tuple of its values
AsTuple(f) == <<>> \o f

RECURSIVE SetToSeq(_)
SetToSeq(S) == IF S = {} THEN <<>>
               ELSE LET x == CHOOSE x \in S : TRUE IN <<x>> \o SetToSeq(S \ {x})

\* The monthly columns of pd.DataFrame(list of dicts): the keys of all the rows.
\* Their order (first appearance) decides only the order in which values are
\* added up, so they are listed in an arbitrary fixed order.
MonthlyColumns(rows) ==
    SetToSeq(UNION {{rows[k].cells[i][1] : i \in 1..Len(rows[k].cells)} : k \in 1..Len(rows)})

\* rows restricted to year in lo..hi
FilterRows(rows, lo, hi) == SelectSeq(rows, LAMBDA r : r.year >= lo /\ r.year <= hi)

\* the December rows, year + 1
DecRows(rows) ==
    LET dec_rows == SelectSeq(rows, LAMBDA r : r.month = 12)
    IN  AsTuple([k \in 1..Len(dec_rows) |->
                    [dec_rows[k] EXCEPT !.year = dec_rows[k].year + 1]])

\* groupby(['GEOID', 'year']) iterates the keys in sorted order
KeyLess(a, b) == a[1] < b[1] \/ (a[1] = b[1] /\ a[2] < b[2])
RECURSIVE SortedKeys(_)
SortedKeys(S) == IF S = {} THEN <<>>
                 ELSE LET m == CHOOSE x \in S : \A y \in S : x = y \/ KeyLess(x, y)
                      IN  <<m>> \o SortedKeys(S \ {m})

GroupRows(rows, key) == SelectSeq(rows, LAMBDA r : <<r.GEOID, r.year>> = key)

\* [col for col in group.columns if col.startswith(f'{var}_')]
MonthlyCols(columns, var) ==
    SelectSeq(columns, LAMBDA col : StartsWith(col, Chars(var) \o <<"_">>))

\* [col for col in monthly_cols if any(f'{m:02d}' in col for m in months)]
SeasonCols(monthly_cols, months) ==
    SelectSeq(monthly_cols,
              LAMBDA col : \E n \in 1..Len(months) : Contains(col, Fmt02(months[n])))

\* the non-NaN values one row holds under the given columns (a column the row's
\* dict did not set is NaN in the frame)
RowValues(cells, cols) ==
    LET kept == SelectSeq(cells, LAMBDA item : InSeq(item[1], cols) /\ ~IsNaN(item[2]))
    IN  AsTuple([k \in 1..Len(kept) |-> kept[k][2][1]])

RECURSIVE GroupValues(_, _, _)
\* group[cols].values.flatten() without the NaNs
GroupValues(group, cols, k) ==
    IF k > Len(group) THEN <<>>
    ELSE RowValues(group[k].cells, cols) \o GroupValues(group, cols, k + 1)

\* a statistics entry that averages every variable
StatItemAllMean(var, window, group, cols) ==
    IF cols = <<>> THEN <<>>
    ELSE LET values == GroupValues(group, cols, 1)
         IN  IF Len(values) > 0
             THEN << <<<<var, "mean", window>>, NpMean(values)>> >>
             ELSE <<>>

\* one entry of the stats dict, or nothing
StatItem(var, window, group, cols) ==
    IF cols = <<>> THEN <<>>
    ELSE LET values == GroupValues(group, cols, 1)
         IN  IF Len(values) > 0
             THEN IF var \in SumVars
                  THEN << <<<<var, "sum", window>>, NpSum(values)>> >>
                  ELSE << <<<<var, "mean", window>>, NpMean(values)>> >>
             ELSE <<>>

\* The columns each statistic reads, <<var, window, cols>> for every var: they
\* depend on the frame's columns only, which every group shares.
AnnualPlan(columns) ==
    AsTuple([v \in 1..Len(VarList) |->
                <<VarList[v], "annual", MonthlyCols(columns, VarList[v])>>])

SeasonPlan(annual_plan, season) ==
    AsTuple([v \in 1..Len(VarList) |->
                <<VarList[v], season, SeasonCols(annual_plan[v][3], SeasonMonths(season))>>])

\* the plans of the annual loop and of the four season loops, in loop order
Plans(annual_plan) ==
    <<annual_plan>> \o [s \in 1..Len(SeasonList) |-> SeasonPlan(annual_plan, SeasonList[s])]

RECURSIVE LoopStats(_, _, _)
\* the items one loop over the variables adds to the stats dict
LoopStats(group, plan, k) ==
    IF k > Len(plan) THEN <<>>
    ELSE StatItem(plan[k][1], plan[k][2], group, plan[k][3])
         \o LoopStats(group, plan, k + 1)

\* the stats dict of one group, as its items in insertion order
GroupStats(group, plans) ==
    LoopStats(group, plans[1], 1) \o LoopStats(group, plans[2], 1)
    \o LoopStats(group, plans[3], 1) \o LoopStats(group, plans[4], 1)
    \o LoopStats(group, plans[5], 1)

\* the frame of all groups, returned without the final filter
FilterOutKeepingAll(annual_stats, has_target, target_year) ==
    IF annual_stats = <<>> THEN [ok |-> FALSE, rows |-> <<>>]
    ELSE [ok |-> TRUE, rows |-> annual_stats]

\* out = pd.DataFrame(annual_stats) and the final filter on out['year']
FilterOut(annual_stats, has_target, target_year) ==
    IF annual_stats = <<>> THEN [ok |-> FALSE, rows |-> <<>>]
    ELSE [ok |-> TRUE,
          rows |-> IF has_target
                   THEN FilterRows(annual_stats, target_year, target_year)
                   ELSE FilterRows(annual_stats, START_YEAR, END_YEAR)]

\* a groupby loop that drops the groups without any statistic
AnnualStatsDroppingEmpty(df_adj, keys, plans) ==
    SelectSeq(AsTuple([n \in 1..Len(keys) |->
                          [GEOID |-> keys[n][1], year |-> keys[n][2],
                           stats |-> GroupStats(GroupRows(df_adj, keys[n]), plans)]]),
              LAMBDA r : r.stats # <<>>)

\* the groupby loop over df_adj
AnnualStats(df_adj, keys, plans) ==
    AsTuple([n \in 1..Len(keys) |->
                [GEOID |-> keys[n][1], year |-> keys[n][2],
                 stats |-> GroupStats(GroupRows(df_adj, keys[n]), plans)]])

StatsLoop(df_adj, plans) ==
    AnnualStats(df_adj,
                SortedKeys({<<df_adj[k].GEOID, df_adj[k].year>> : k \in 1..Len(df_adj)}),
                plans)

\* df_adj = pd.concat([df_adj, dec_rows])
WithDecemberCarry(df) == df \o DecRows(df)

\* calculate_annual_seasonal_stats(df, target_year); has_target = FALSE is
\* target_year=None.  [ok |-> FALSE] is the KeyError of indexing a frame that
\* has no 'year' (or 'month') column, i.e. one built from an empty list.
calculate_annual_seasonal_stats(df_rows, has_target, target_year) ==
    IF df_rows = <<>> THEN [ok |-> FALSE, rows |-> <<>>]
    ELSE FilterOut(StatsLoop(WithDecemberCarry(IF has_target
                                               THEN FilterRows(df_rows, target_year,
                                                               target_year)
                                               ELSE df_rows),
                             Plans(AnnualPlan(MonthlyColumns(df_rows)))),
                   has_target, target_year)

\* ------------------------------------------------------------ the inputs
\* Months for which the NLDAS folder may hold a file, and the number of
\* candidate files that may be missing or unreadable.
DiskMonths == {1, 2, 12}
MaxBad == 3
\* the script is started a second time only over folders with at most this many
MaxBadTwice == 2

PrevDec == <<START_YEAR - 1, 12>>
CandidateFiles == {PrevDec} \cup (Years \X DiskMonths)

RECURSIVE Pow2(_)
Pow2(n) == IF n = 0 THEN 1 ELSE 2 * Pow2(n - 1)

\* every file carries its own power of two, so a sum of monthly values names
\* the months that went into it
FileBase(f) ==
    IF f = PrevDec THEN 1
    ELSE Pow2(1 + (f[1] - START_YEAR) * Cardinality(DiskMonths)
                + Cardinality({m \in DiskMonths : m < f[2]}))

\* the nlat x nlon array whose cell of flat index k (row-major, from 0) is vals[k]
GridArray(nlat, nlon, vals) ==
    [shape |-> <<nlat, nlon>>,
     at |-> [p \in (0..(nlat - 1)) \X (0..(nlon - 1)) |-> vals[p[1] * nlon + p[2]]]]

\* The variables a monthly file carries: the files of the start year (and the
\* December before it) hold Tair and Rainf, the files of later years hold
\* PotEvap as well.
SourceVars(f) ==
    IF f[1] > START_YEAR THEN {"Tair", "Rainf", "PotEvap"} ELSE {"Tair", "Rainf"}

\* the dataset of a readable file: cell k holds base * (k + 1)
Dataset(f) ==
    [readable |-> TRUE,
     vars |-> [v \in SourceVars(f) |->
                 IF v = "Tair"
                 THEN GridArray(NLat, NLon,
                                [k \in 0..(NCells - 1) |->
                                    Num(KelvinOffset + FileBase(f) * (k + 1))])
                 ELSE GridArray(NLat, NLon,
                                [k \in 0..(NCells - 1) |-> Num(FileBase(f) * (k + 1))])]]
Unreadable == [readable |-> FALSE, vars |-> << >>]

\* The county boundary file of the runs, for a grid of n cells: a county inside
\* the first cell, a county split over the last two cells, a county that meets
\* no cell and a county without geometry.  GEOIDs are numeric FIPS codes, not
\* in file order.
Boundaries(n) ==
    << [GEOID |-> 2, geom |-> "ok", area |-> 1, raiseAt |-> 0,
        inter |-> [g \in 1..n |-> IF g = 1 THEN 1 ELSE 0]],
       [GEOID |-> 1, geom |-> "ok", area |-> 2, raiseAt |-> 0,
        inter |-> [g \in 1..n |-> IF g >= n - 1 THEN 1 ELSE 0]],
       [GEOID |-> 3, geom |-> "ok", area |-> 1, raiseAt |-> 0,
        inter |-> [g \in 1..n |-> 0]],
       [GEOID |-> 4, geom |-> "null", area |-> 0, raiseAt |-> 0,
        inter |-> [g \in 1..n |-> 0]] >>

\* cache files that may lie in the output folder before the first run: one built
\* from this grid, and one built from a grid with one more column of cells
FreshNpz ==
    LET w == create_spatial_weight_matrix(Boundaries(NCells), NLat, NLon)
    IN  CacheSave(w.weight_matrix, w.grid_indices)
StaleNpz ==
    LET w == create_spatial_weight_matrix(Boundaries(NLat * (NLon + 1)), NLat, NLon + 1)
    IN  CacheSave(w.weight_matrix, w.grid_indices)

\* ---------------------------------------------------------------- state
VARIABLES
    pc,            \* position in main()
    run,           \* 1 or 2: which execution of the script this is
    cfg,           \* what load_paths finds ("unknown" until it looks)
    disk,          \* candidate file -> "unlisted" | "absent" | "present" | "ok" | "corrupt"
    cache,         \* county_grid_weights.npz: [state, npz]
    nldas_files,   \* list of (year, month) built by get_nldas_files
    gdf,           \* county boundaries
    weight_matrix, \* CSR matrix in use
    grid_indices,  \* its (row, col) list
    wsource,       \* "none" | "loaded" | "computed"
    year_queue,    \* years still to process, ascending
    year,          \* year being processed
    file_idx,      \* next entry of year_files (1-based)
    year_results,  \* monthly rows of the year being processed
    all_results,   \* list of the per-year frames
    out_files,     \* NLDAS_<year>.csv on disk: year -> rows
    written,       \* the per-year files written by this run: year -> rows
    combined,      \* NLDAS_<start>_<end>.csv: [saved, rows]
    summary,       \* the closing summary was printed
    first,         \* what the first execution left: [pc, written]
    probe,         \* weight builder, cache and aggregator applied to one input
    loader,        \* load_nldas_monthly_data and what follows it, applied to one file
    frame,         \* calculate_annual_seasonal_stats applied to one frame
    dl,            \* Download_EPA_AIR.py: the downloader's state
    vif            \* PCA.py: the state of select_variables_with_vif

vars == <<pc, run, cfg, disk, cache, nldas_files, gdf, weight_matrix, grid_indices,
          wsource, year_queue, year, file_idx, year_results, all_results, out_files,
          written, combined, summary, first, probe, loader,
          frame, dl, vif>>

weightVars == <<cache, weight_matrix, grid_indices, wsource>>
yearVars == <<year_queue, year, file_idx, year_results, all_results>>
sideVars == <<loader, frame, dl, vif>>
outVars == <<out_files, written, combined, summary, probe, sideVars>>

EmptyCsr == [data |-> <<>>, indices |-> <<>>, indptr |-> <<0>>, shape |-> <<0, 0>>]
NoCache == [state |-> "absent", npz |-> CacheSave(EmptyCsr, <<>>)]

NoNpz == CacheSave(EmptyCsr, <<>>)
NoField == [shape |-> <<0, 0>>, at |-> << >>]
NoProbe == [stage |-> "off", gdf |-> <<>>, field |-> NoField,
            weight_matrix |-> EmptyCsr, grid_indices |-> <<>>, npz |-> NoNpz,
            loaded_matrix |-> EmptyCsr, loaded_indices |-> <<>>,
            fresh |-> <<>>, cached |-> <<>>]

InitRun ==
    /\ run = 1
    /\ cfg = "unknown"
    /\ disk = [f \in CandidateFiles |-> "unlisted"]
    /\ cache = [state |-> "unknown", npz |-> CacheSave(EmptyCsr, <<>>)]
    /\ nldas_files = <<>>
    /\ gdf = <<>>
    /\ weight_matrix = EmptyCsr
    /\ grid_indices = <<>>
    /\ wsource = "none"
    /\ year_queue = <<>>
    /\ year = 0
    /\ file_idx = 0
    /\ year_results = <<>>
    /\ all_results = <<>>
    /\ out_files = << >>
    /\ written = << >>
    /\ combined = [saved |-> FALSE, rows |-> <<>>]
    /\ summary = FALSE
    /\ first = [pc |-> "none", written |-> << >>]

\* the other programs are not running
SideOff == [stage |-> "off"]
InitSide == loader = SideOff /\ frame = SideOff /\ dl = SideOff /\ vif = SideOff

Init ==
    /\ pc = "load_paths"
    /\ probe = NoProbe
    /\ InitRun
    /\ InitSide

\* ------------------------------------------------------------- load_paths
\* "no_geoid": every path exists, but the boundary file has no GEOID column
ConfigStates == {"ok", "no_config", "missing_key", "no_nldas_folder", "no_shapefile",
                 "no_geoid"}

LoadPaths ==
    /\ pc = "load_paths"
    /\ \E c \in (IF cfg = "unknown" THEN ConfigStates ELSE {cfg}) :
          /\ cfg' = c
          /\ pc' = IF c \in {"ok", "no_geoid"} THEN "get_files" ELSE "exited"
    /\ UNCHANGED <<run, disk, nldas_files, gdf, weightVars, yearVars, outVars, first>>

\* ---------------------------------------------------------- get_nldas_files
BadCount(d) == Cardinality({f \in DOMAIN d : d[f] \in {"absent", "corrupt"}})

Listings ==
    {[f \in CandidateFiles |-> IF f \in present THEN "present" ELSE "absent"] :
        present \in {S \in SUBSET CandidateFiles : Cardinality(CandidateFiles \ S) <= MaxBad}}

RECURSIVE MonthsFound(_, _, _)
\* the inner loop over month in range(1, 13)
MonthsFound(d, y, m) ==
    IF m > 12 THEN <<>>
    ELSE (IF <<y, m>> \in DOMAIN d /\ d[<<y, m>>] # "absent" THEN <<<<y, m>>>> ELSE <<>>)
         \o MonthsFound(d, y, m + 1)

RECURSIVE YearsFound(_, _, _)
YearsFound(d, y, end_year) ==
    IF y > end_year THEN <<>>
    ELSE MonthsFound(d, y, 1) \o YearsFound(d, y + 1, end_year)

get_nldas_files(d, start_year, end_year) ==
    (IF start_year - 1 >= 0 /\ d[<<start_year - 1, 12>>] # "absent"
     THEN <<<<start_year - 1, 12>>>> ELSE <<>>)
    \o YearsFound(d, start_year, end_year)

GetFiles ==
    /\ pc = "get_files"
    /\ \E d \in (IF disk[PrevDec] = "unlisted" THEN Listings ELSE {disk}) :
          /\ disk' = d
          /\ nldas_files' = get_nldas_files(d, START_YEAR, END_YEAR)
          /\ pc' = IF nldas_files' = <<>> THEN "done" ELSE "boundaries"
    /\ UNCHANGED <<run, cfg, gdf, weightVars, yearVars, outVars, first>>

\* ------------------------------------------------------ load_county_boundaries
\* the boundary file as read when it has no GEOID column
WithoutGEOID(boundaries) ==
    [c \in 1..Len(boundaries) |->
        [geom |-> boundaries[c].geom, area |-> boundaries[c].area,
         raiseAt |-> boundaries[c].raiseAt, inter |-> boundaries[c].inter]]

\* gdf.iloc[county_idx]['GEOID'] finds the column
HasGEOID(counties) == \A c \in 1..Len(counties) : "GEOID" \in DOMAIN counties[c]

LoadBoundaries ==
    /\ pc = "boundaries"
    /\ gdf' = IF cfg = "no_geoid" THEN WithoutGEOID(Boundaries(NCells))
              ELSE Boundaries(NCells)
    /\ pc' = "weights"
    /\ UNCHANGED <<run, cfg, disk, nldas_files, weightVars, yearVars, outVars, first>>

\* ------------------------------------------------------------ opening a file
\* what opening file f can find, given what is known of the disk
Opens(f) ==
    IF disk[f] = "present"
    THEN {"ok"} \cup (IF BadCount(disk) < MaxBad THEN {"corrupt"} ELSE {})
    ELSE {disk[f]}

FileData(status, f) == IF status = "ok" THEN Dataset(f) ELSE Unreadable

\* ----------------------------------------------- main, step 3: the weights
RECURSIVE YearKeys(_, _)
\* the keys of files_by_year
YearKeys(files, k) ==
    IF k > Len(files) THEN {}
    ELSE (IF files[k][1] = START_YEAR - 1 /\ files[k][2] = 12 THEN {} ELSE {files[k][1]})
         \cup YearKeys(files, k + 1)

StartYears ==
    /\ pc' = "next_year"
    /\ year_queue' = Sorted(YearKeys(nldas_files, 1))
    /\ all_results' = <<>>
    /\ UNCHANGED <<year, file_idx, year_results>>

LoadWeights ==
    /\ pc = "weights"
    /\ \E c \in (IF cache.state = "unknown"
                 THEN {[state |-> "exists", npz |-> FreshNpz],
                       [state |-> "exists", npz |-> StaleNpz]}
                 ELSE {cache}) :
          /\ c.state = "exists"
          /\ cache' = c
          /\ weight_matrix' = CacheLoad(c.npz).weight_matrix
          /\ grid_indices' = CacheLoad(c.npz).grid_indices
    /\ wsource' = "loaded"
    /\ StartYears
    /\ UNCHANGED <<run, cfg, disk, nldas_files, gdf, outVars, first>>

\* step 3 recomputing the weights whether or not the cache file exists
CreateWeightsAlways ==
    /\ pc = "weights"
    /\ \E st \in Opens(nldas_files[1]) :
          /\ disk' = [disk EXCEPT ![nldas_files[1]] = st]
          /\ IF st = "ok"
             THEN LET w == create_spatial_weight_matrix(gdf, NLat, NLon)
                  IN  /\ weight_matrix' = w.weight_matrix
                      /\ grid_indices' = w.grid_indices
                      /\ wsource' = "computed"
                      /\ cache' = [state |-> "exists",
                                   npz |-> CacheSave(w.weight_matrix, w.grid_indices)]
                      /\ StartYears
             ELSE /\ pc' = "crashed"
                  /\ cache' = NoCache
                  /\ UNCHANGED <<weight_matrix, grid_indices, wsource, yearVars>>
    /\ UNCHANGED <<run, cfg, nldas_files, gdf, outVars, first>>

CreateWeights ==
    /\ pc = "weights"
    /\ cache.state \in {"unknown", "absent"}
    /\ \E st \in Opens(nldas_files[1]) :
          /\ disk' = [disk EXCEPT ![nldas_files[1]] = st]
          /\ IF st = "ok"
             THEN LET w == create_spatial_weight_matrix(gdf, NLat, NLon)
                  IN  /\ weight_matrix' = w.weight_matrix
                      /\ grid_indices' = w.grid_indices
                      /\ wsource' = "computed"
                      /\ cache' = [state |-> "exists",
                                   npz |-> CacheSave(w.weight_matrix, w.grid_indices)]
                      /\ StartYears
             ELSE /\ pc' = "crashed"
                  /\ cache' = NoCache
                  /\ UNCHANGED <<weight_matrix, grid_indices, wsource, yearVars>>
    /\ UNCHANGED <<run, cfg, nldas_files, gdf, outVars, first>>

\* ------------------------------------------------ process_nldas_data_by_year
RECURSIVE YearFilesFrom(_, _, _)
\* files_by_year[y]
YearFilesFrom(files, y, k) ==
    IF k > Len(files) THEN <<>>
    ELSE (IF files[k][1] = y /\ ~(files[k][1] = START_YEAR - 1 /\ files[k][2] = 12)
          THEN <<files[k]>> ELSE <<>>)
         \o YearFilesFrom(files, y, k + 1)
YearFiles(y) == YearFilesFrom(nldas_files, y, 1)

RECURSIVE PrevDecFilesFrom(_, _)
PrevDecFilesFrom(files, k) ==
    IF k > Len(files) THEN <<>>
    ELSE (IF files[k][1] = START_YEAR - 1 /\ files[k][2] = 12 THEN <<files[k]>> ELSE <<>>)
         \o PrevDecFilesFrom(files, k + 1)
prev_year_dec_files == PrevDecFilesFrom(nldas_files, 1)

\* the rows one loaded month adds to year_results (none when the load failed)
MonthRows(f, ds) ==
    LET monthly_data == load_nldas_monthly_data(ds)
    IN  IF ~monthly_data.ok THEN <<>>
        ELSE LET county_data ==
                     [k \in 1..Len(monthly_data.data) |->
                         <<monthly_data.data[k][1],
                           aggregate_to_counties(weight_matrix, monthly_data.data[k][2],
                                                 grid_indices)>>]
             IN  [c \in 1..Len(gdf) |-> ResultRow(gdf[c].GEOID, f[1], f[2], county_data, c)]

\* building the first result_row of a loaded month raises KeyError: 'GEOID'
RowsRaise(status) == status = "ok" /\ Len(gdf) > 0 /\ ~HasGEOID(gdf)

\* the head of the year loop without year_results = []
BeginYearKeepingRows ==
    /\ pc = "next_year"
    /\ year_queue # <<>>
    /\ year' = Head(year_queue)
    /\ year_queue' = Tail(year_queue)
    /\ file_idx' = 1
    /\ pc' = IF Head(year_queue) = START_YEAR /\ prev_year_dec_files # <<>>
             THEN "prev_dec" ELSE "months"
    /\ UNCHANGED <<run, cfg, disk, nldas_files, gdf, weightVars, year_results, all_results,
                   outVars, first>>

BeginYear ==
    /\ pc = "next_year"
    /\ year_queue # <<>>
    /\ year' = Head(year_queue)
    /\ year_queue' = Tail(year_queue)
    /\ year_results' = <<>>
    /\ file_idx' = 1
    /\ pc' = IF Head(year_queue) = START_YEAR /\ prev_year_dec_files # <<>>
             THEN "prev_dec" ELSE "months"
    /\ UNCHANGED <<run, cfg, disk, nldas_files, gdf, weightVars, all_results, outVars, first>>

\* the block that adds the preceding December in the start year
LoadPrevDec ==
    /\ pc = "prev_dec"
    /\ \E st \in Opens(prev_year_dec_files[1]) :
          /\ disk' = [disk EXCEPT ![prev_year_dec_files[1]] = st]
          /\ IF RowsRaise(st)
             THEN /\ pc' = "crashed"
                  /\ UNCHANGED year_results
             ELSE /\ pc' = "months"
                  /\ year_results' = year_results
                                     \o MonthRows(prev_year_dec_files[1],
                                                  FileData(st, prev_year_dec_files[1]))
    /\ UNCHANGED <<run, cfg, nldas_files, gdf, weightVars, year_queue, year, file_idx,
                   all_results, outVars, first>>

LoadMonth ==
    /\ pc = "months"
    /\ file_idx <= Len(YearFiles(year))
    /\ LET f == YearFiles(year)[file_idx]
       IN  \E st \in Opens(f) :
              /\ disk' = [disk EXCEPT ![f] = st]
              /\ IF RowsRaise(st)
                 THEN /\ pc' = "crashed"
                      /\ UNCHANGED <<year_results, file_idx>>
                 ELSE /\ pc' = pc
                      /\ year_results' = year_results \o MonthRows(f, FileData(st, f))
                      /\ file_idx' = file_idx + 1
    /\ UNCHANGED <<run, cfg, nldas_files, gdf, weightVars, year_queue, year,
                   all_results, outVars, first>>

\* rename(columns={"GEOID": "COUNTY_FIPS"})
RenameRows(rows) ==
    [k \in 1..Len(rows) |->
        [COUNTY_FIPS |-> rows[k].GEOID, year |-> rows[k].year, stats |-> rows[k].stats]]

\* statistics of the year, NLDAS_<year>.csv, all_results.append
YearStats ==
    /\ pc = "months"
    /\ file_idx > Len(YearFiles(year))
    /\ \E res \in {calculate_annual_seasonal_stats(year_results, TRUE, year)} :
           IF ~res.ok
           THEN /\ pc' = "crashed"
                /\ UNCHANGED <<all_results, out_files, written>>
           ELSE /\ pc' = "next_year"
                /\ IF year >= START_YEAR
                   THEN LET annual_df == RenameRows(res.rows)
                        IN  /\ out_files' = (year :> annual_df) @@ out_files
                            /\ written' = (year :> annual_df) @@ written
                            /\ all_results' = Append(all_results, annual_df)
                   ELSE UNCHANGED <<all_results, out_files, written>>
    /\ UNCHANGED <<run, cfg, disk, nldas_files, gdf, weightVars, year_queue, year,
                   file_idx, year_results, combined, summary, first, probe, sideVars>>

\* an ending that keeps the frame of the last year only
FinishLastYearOnly ==
    /\ pc = "next_year"
    /\ year_queue = <<>>
    /\ LET final_df == IF all_results = <<>> THEN <<>> ELSE all_results[Len(all_results)]
       IN  /\ combined' = IF final_df # <<>>
                          THEN [saved |-> TRUE, rows |-> final_df] ELSE combined
           /\ summary' = (final_df # <<>>)
    /\ pc' = "done"
    /\ UNCHANGED <<run, cfg, disk, nldas_files, gdf, weightVars, yearVars, out_files,
                   written, first, probe, sideVars>>

\* pd.concat, the combined CSV and the closing summary
Finish ==
    /\ pc = "next_year"
    /\ year_queue = <<>>
    /\ LET final_df == Flatten(all_results)
       IN  /\ combined' = IF final_df # <<>>
                          THEN [saved |-> TRUE, rows |-> final_df] ELSE combined
           /\ summary' = (final_df # <<>>)
    /\ pc' = "done"
    /\ UNCHANGED <<run, cfg, disk, nldas_files, gdf, weightVars, yearVars, out_files,
                   written, first, probe, sideVars>>

\* ------------------------------------------------------------- second run
\* the script is started again over the same folders
Rerun ==
    /\ pc \in {"done", "crashed", "exited"}
    /\ run = 1
    /\ BadCount(disk) <= MaxBadTwice
    /\ run' = 2
    /\ first' = [pc |-> pc, written |-> written]
    /\ pc' = "load_paths"
    /\ nldas_files' = <<>>
    /\ gdf' = <<>>
    /\ weight_matrix' = EmptyCsr
    /\ grid_indices' = <<>>
    /\ wsource' = "none"
    /\ year_queue' = <<>>
    /\ year' = 0
    /\ file_idx' = 0
    /\ year_results' = <<>>
    /\ all_results' = <<>>
    /\ written' = << >>
    /\ summary' = FALSE
    /\ UNCHANGED <<cfg, disk, cache, out_files, combined, probe, sideVars>>

Next ==
    \/ LoadPaths
    \/ GetFiles
    \/ LoadBoundaries
    \/ LoadWeights
    \/ CreateWeights
    \/ BeginYear
    \/ LoadPrevDec
    \/ LoadMonth
    \/ YearStats
    \/ Finish

Spec == Init /\ [][Next]_vars

NextTwice == Next \/ Rerun

SpecTwice == Init /\ [][NextTwice]_vars

\* ------------------------------------- weight builder, cache and aggregator
\* The three functions applied, outside a run, to one boundary file and one
\* field: a county of any shape followed by a county that fills the last cell.
ProbeShapes ==
    {c \in {[GEOID |-> 1, geom |-> "ok", area |-> a, raiseAt |-> r, inter |-> i] :
               a \in 1..MaxArea, r \in 0..NCells, i \in [1..NCells -> 0..MaxArea]} :
        SeqSum(c.inter) <= c.area}
    \cup
    {[GEOID |-> 1, geom |-> g, area |-> 0, raiseAt |-> 0, inter |-> [k \in 1..NCells |-> 0]] :
        g \in {"null", "empty", "ok"}}

LastCellCounty ==
    [GEOID |-> 2, geom |-> "ok", area |-> 1, raiseAt |-> 0,
     inter |-> [k \in 1..NCells |-> IF k = NCells THEN 1 ELSE 0]]

\* fields whose cells are NaN or 7 (k + 1): fields of the grid's shape, and
\* fields with one column fewer than the grid the weights are built for
FieldsOfShape(nlat, nlon) ==
    {GridArray(nlat, nlon,
               [k \in 0..(nlat * nlon - 1) |->
                   IF (k + 1) \in nan THEN NaN ELSE Num(7 * (k + 1))]) :
        nan \in SUBSET (1..(nlat * nlon))}
ProbeFields == FieldsOfShape(NLat, NLon) \cup FieldsOfShape(NLat, NLon - 1)

InitProbe ==
    /\ pc = "probe"
    /\ \E c \in ProbeShapes, fld \in ProbeFields :
          probe = [NoProbe EXCEPT !.stage = "input", !.gdf = <<c, LastCellCounty>>,
                                  !.field = [shape |-> fld.shape,
                                             at |-> [p \in DOMAIN fld.at |-> fld.at[p]]]]
    /\ InitRun
    /\ InitSide

coreVars == <<pc, run, cfg, disk, cache, nldas_files, gdf, weight_matrix, grid_indices,
                wsource, year_queue, year, file_idx, year_results, all_results, out_files,
                written, combined, summary, first>>
driverVars == <<coreVars, sideVars>>

ProbeBuild ==
    /\ probe.stage = "input"
    /\ LET w == create_spatial_weight_matrix(probe.gdf, NLat, NLon)
       IN  probe' = [probe EXCEPT !.stage = "built",
                                  !.weight_matrix = w.weight_matrix,
                                  !.grid_indices = w.grid_indices]
    /\ UNCHANGED driverVars

ProbeSave ==
    /\ probe.stage = "built"
    /\ probe' = [probe EXCEPT !.stage = "saved",
                              !.npz = CacheSave(probe.weight_matrix, probe.grid_indices)]
    /\ UNCHANGED driverVars

ProbeLoad ==
    /\ probe.stage = "saved"
    /\ probe' = [probe EXCEPT !.stage = "loaded",
                              !.loaded_matrix = CacheLoad(probe.npz).weight_matrix,
                              !.loaded_indices = CacheLoad(probe.npz).grid_indices]
    /\ UNCHANGED driverVars

ProbeAggregate ==
    /\ probe.stage = "loaded"
    /\ probe' = [probe EXCEPT
                    !.stage = "aggregated",
                    !.fresh = aggregate_to_counties(probe.weight_matrix, probe.field,
                                                    probe.grid_indices),
                    !.cached = aggregate_to_counties(probe.loaded_matrix, probe.field,
                                                     probe.loaded_indices)]
    /\ UNCHANGED driverVars

NextProbe == ProbeBuild \/ ProbeSave \/ ProbeLoad \/ ProbeAggregate

SpecProbe == InitProbe /\ [][NextProbe]_vars

\* --------------------------------------------- one monthly file, end to end
\* The variables a monthly NLDAS file may hold, and the value its cell k holds
\* for each (dry air: Qair = 0; the wind components make a 3-4-5 triangle).
SourceNames == {"Tair", "Wind_E", "Wind_N", "Rainf", "Qair", "SWdown", "LWdown",
                "PSurf", "CAPE", "PotEvap"}
SourceValue(v, k) ==
    CASE v = "Tair"   -> Num(KelvinOffset + 100 * (k + 1))
      [] v = "Wind_E" -> Num(3 * (k + 1))
      [] v = "Wind_N" -> Num(4 * (k + 1))
      [] v = "Qair"   -> Num(0)
      [] v = "PSurf"  -> Num(1000 * (k + 1))
      [] OTHER        -> Num(k + 1)

\* a readable file holding the variables in `names`
FileWith(names) ==
    [readable |-> TRUE,
     vars |-> [v \in names |->
                 GridArray(NLat, NLon, [k \in 0..(NCells - 1) |-> SourceValue(v, k)])]]

LoaderFile == <<START_YEAR, 1>>
FreshWeights == create_spatial_weight_matrix(Boundaries(NCells), NLat, NLon)

\* the driver stands in the year loop with freshly built weights; the file to
\* load holds any set of variables, or cannot be read
InitLoader ==
    /\ pc = "loader"
    /\ run = 1
    /\ cfg = "ok"
    /\ disk = [f \in CandidateFiles |-> IF f = LoaderFile THEN "present" ELSE "absent"]
    /\ cache = [state |-> "exists",
                npz |-> CacheSave(FreshWeights.weight_matrix, FreshWeights.grid_indices)]
    /\ nldas_files = <<LoaderFile>>
    /\ gdf = Boundaries(NCells)
    /\ weight_matrix = FreshWeights.weight_matrix
    /\ grid_indices = FreshWeights.grid_indices
    /\ wsource = "computed"
    /\ year_queue = <<>>
    /\ year = START_YEAR
    /\ file_idx = 1
    /\ year_results = <<>>
    /\ all_results = <<>>
    /\ out_files = << >>
    /\ written = << >>
    /\ combined = [saved |-> FALSE, rows |-> <<>>]
    /\ summary = FALSE
    /\ first = [pc |-> "none", written |-> << >>]
    /\ probe = NoProbe
    /\ frame = SideOff
    /\ dl = SideOff
    /\ vif = SideOff
    /\ \E ds \in {FileWith(names) : names \in SUBSET SourceNames} \cup {Unreadable} :
          loader = [stage |-> "file", ds |-> ds, monthly_data |-> [ok |-> FALSE, data |-> <<>>],
                    rows |-> <<>>, stats |-> [ok |-> FALSE, rows |-> <<>>]]

\* monthly_data = load_nldas_monthly_data(file_path)
LoaderLoad ==
    /\ loader.stage = "file"
    /\ \E md \in {load_nldas_monthly_data(loader.ds)} :
          loader' = [loader EXCEPT !.stage = IF md.ok THEN "loaded" ELSE "skipped",
                                   !.monthly_data = md]
    /\ UNCHANGED <<coreVars, probe, frame, dl, vif>>

\* the county aggregation of every loaded variable and the rows of the month
LoaderRows ==
    /\ loader.stage = "loaded"
    /\ loader' = [loader EXCEPT !.stage = "rows",
                                !.rows = MonthRows(LoaderFile, loader.ds)]
    /\ UNCHANGED <<coreVars, probe, frame, dl, vif>>

\* the statistics of a year made of this month alone
LoaderStats ==
    /\ loader.stage = "rows"
    /\ loader' = [loader EXCEPT
                     !.stage = "stats",
                     !.stats = calculate_annual_seasonal_stats(loader.rows, TRUE, START_YEAR)]
    /\ UNCHANGED <<coreVars, probe, frame, dl, vif>>

NextLoader == LoaderLoad \/ LoaderRows \/ LoaderStats

SpecLoader == InitLoader /\ [][NextLoader]_vars

\* ------------------------------------- the statistics of one monthly frame
\* the monthly rows of the files in `files`, in the order of the file list
FrameRows(files) ==
    LET list == SelectSeq(get_nldas_files([f \in CandidateFiles |-> "present"],
                                          START_YEAR, END_YEAR),
                          LAMBDA f : f \in files)
    IN  Flatten([k \in 1..Len(list) |-> MonthRows(list[k], Dataset(list[k]))])

\* the weights are freshly built; the frame holds the rows of any set of
\* readable monthly files, of one year or of several
InitFrame ==
    /\ pc = "frame"
    /\ run = 1
    /\ cfg = "ok"
    /\ \E files \in SUBSET CandidateFiles :
          /\ disk = [f \in CandidateFiles |-> IF f \in files THEN "ok" ELSE "absent"]
          /\ nldas_files = get_nldas_files(disk, START_YEAR, END_YEAR)
    /\ cache = [state |-> "exists",
                npz |-> CacheSave(FreshWeights.weight_matrix, FreshWeights.grid_indices)]
    /\ gdf = Boundaries(NCells)
    /\ weight_matrix = FreshWeights.weight_matrix
    /\ grid_indices = FreshWeights.grid_indices
    /\ wsource = "computed"
    /\ year_queue = <<>>
    /\ year = 0
    /\ file_idx = 0
    /\ year_results = <<>>
    /\ all_results = <<>>
    /\ out_files = << >>
    /\ written = << >>
    /\ combined = [saved |-> FALSE, rows |-> <<>>]
    /\ summary = FALSE
    /\ first = [pc |-> "none", written |-> << >>]
    /\ probe = NoProbe
    /\ loader = SideOff
    /\ dl = SideOff
    /\ vif = SideOff
    /\ frame = [stage |-> "input", has_target |-> FALSE, target_year |-> 0,
                out |-> [ok |-> FALSE, rows |-> <<>>]]

\* calculate_annual_seasonal_stats(df), target_year left at None
StatsWhole ==
    /\ frame.stage = "input"
    /\ \E df \in {FrameRows({f \in CandidateFiles : disk[f] = "ok"})} :
          frame' = [stage |-> "done", has_target |-> FALSE, target_year |-> 0,
                    out |-> calculate_annual_seasonal_stats(df, FALSE, 0)]
    /\ UNCHANGED <<coreVars, probe, loader, dl, vif>>

\* calculate_annual_seasonal_stats(df, target_year=y)
StatsOfYear ==
    /\ frame.stage = "input"
    /\ \E y \in Years :
          \E df \in {FrameRows({f \in CandidateFiles : disk[f] = "ok"})} :
             frame' = [stage |-> "done", has_target |-> TRUE, target_year |-> y,
                       out |-> calculate_annual_seasonal_stats(df, TRUE, y)]
    /\ UNCHANGED <<coreVars, probe, loader, dl, vif>>

NextFrame == StatsWhole \/ StatsOfYear

SpecFrame == InitFrame /\ [][NextFrame]_vars

\* =================================================================== claims
\* ------------------------------------------------ reading the written files
\* the value of one statistic in a row of NLDAS_<year>.csv (NaN: no such cell)
StatOf(stats, key) ==
    IF \E k \in 1..Len(stats) : stats[k][1] = key
    THEN stats[CHOOSE k \in 1..Len(stats) : stats[k][1] = key][2]
    ELSE NaN

CountyIndex(geoid) == CHOOSE c \in 1..Len(gdf) : gdf[c].GEOID = geoid

Kind(var) == IF var \in SumVars THEN "sum" ELSE "mean"

\* the variables the modelled files carry
CheckedVars == {"tas", "prcp"}
Windows == {"annual", "DJF", "MAM", "JJA", "SON"}

\* The county value of the field whose cell k holds k + 1, under the weights in
\* use.  Cell k of file f holds FileBase(f) * (k + 1) for both variables, and the
\* aggregate is linear, so the county's value in month f is FileBase(f) times it.
UnitField == GridArray(NLat, NLon, [k \in 0..(NCells - 1) |-> Num(k + 1)])
CountyFactor(c) == aggregate_to_counties(weight_matrix, UnitField, grid_indices)[c]

\* the files of the window of label-year y as the specification defines it
WindowFiles(y, window) ==
    CASE window = "annual" -> {<<y, m>> : m \in 1..12}
      [] window = "DJF"    -> {<<y - 1, 12>>, <<y, 1>>, <<y, 2>>}
      [] OTHER             -> {<<y, SeasonMonths(window)[n]>> : n \in 1..3}

\* the files of the calendar months of the window inside year y
CalendarFiles(y, window) ==
    CASE window = "annual" -> {<<y, m>> : m \in 1..12}
      [] OTHER             -> {<<y, SeasonMonths(window)[n]>> : n \in 1..3}

Available(files) == {f \in files \cap CandidateFiles : disk[f] = "ok"}

\* mean or sum of the county's values over the available files among `files`
ExpectedStat(var, files, c) ==
    LET avail == SetToSeq(Available(files))
        factor == CountyFactor(c)
    IN  IF IsNaN(factor) \/ avail = <<>> THEN NaN
        ELSE LET values == AsTuple([k \in 1..Len(avail) |->
                                       FileBase(avail[k]) * factor[1]])
             IN  IF var \in SumVars THEN NpSum(values) ELSE NpMean(values)

\* every written cell of the given windows equals the statistic over the
\* window's files: the specification's windows (carry), or the calendar months
CellsMatch(windows, carry) ==
    \A y \in DOMAIN written : \A k \in 1..Len(written[y]) :
        \A var \in CheckedVars : \A w \in windows :
            StatOf(written[y][k].stats, <<var, Kind(var), w>>)
                = ExpectedStat(var,
                               IF carry THEN WindowFiles(y, w) ELSE CalendarFiles(y, w),
                               CountyIndex(written[y][k].COUNTY_FIPS))

\* the files whose values a written precipitation sum is made of: every file
\* contributes its own power of two times the county's factor
FilesIn(cell, c) ==
    IF IsNaN(cell) \/ IsNaN(CountyFactor(c)) THEN {}
    ELSE {f \in CandidateFiles :
             ((cell[1] \div CountyFactor(c)[1]) \div FileBase(f)) % 2 = 1}

\* C1: DJF carry: for every county and every processed year Y, the DJF
\* statistic written for year Y is the mean (sum) over December of Y-1, January
\* of Y and February of Y, as far as these files were loaded; December of Y is
\* not part of it.
C1_DJFCarry == CellsMatch({"DJF"}, TRUE)

\* C2: first-year bootstrap: when the December file of START_YEAR-1 was loaded,
\* the DJF precipitation sum written for START_YEAR is made of that December
\* together with the loaded January and February of START_YEAR.
C2_FirstYearBootstrap ==
    (disk[PrevDec] = "ok" /\ START_YEAR \in DOMAIN written) =>
        \A k \in 1..Len(written[START_YEAR]) :
            LET c == CountyIndex(written[START_YEAR][k].COUNTY_FIPS)
            IN  ~IsNaN(CountyFactor(c)) =>
                    Available({PrevDec, <<START_YEAR, 1>>, <<START_YEAR, 2>>})
                        \subseteq FilesIn(StatOf(written[START_YEAR][k].stats,
                                                 <<"prcp", "sum", "DJF">>), c)

\* C3: cache keying: the weight matrix in use was loaded from the cache file
\* only if that file was built from a grid with the cell count of the current
\* input grid; a cache of another cell count is recomputed.
C3_CacheKeying ==
    (wsource = "loaded") =>
        /\ cache.npz.shape[2] = NCells
        /\ cache.npz.grid_indices.shape[1] = NCells

\* C4: file-failure isolation: with a sound configuration, whichever files
\* fail to load, the year loop never aborts, and a finished run has written the file of every year that had
\* a loadable month.
C4_FailureIsolation ==
    /\ (cfg = "ok" /\ wsource # "none") => pc # "crashed"
    /\ (pc = "done" /\ wsource # "none") =>
           \A y \in Years : Available({<<y, m>> : m \in 1..12}) # {} => y \in DOMAIN written

\* a county without weight in the matrix in use
ZeroRow(geoid) == CsrRowSum(weight_matrix, CountyIndex(geoid)) = 0

\* C5: zero coverage: a county whose weight row is all zero has NaN in every
\* monthly cell of every field, and its row in every written year has no
\* statistic at all (NaN in the file, never 0), the sums included.
C5_ZeroCoverageNaN ==
    /\ \A k \in 1..Len(year_results) :
           ZeroRow(year_results[k].GEOID) =>
               \A i \in 1..Len(year_results[k].cells) : IsNaN(year_results[k].cells[i][2])
    /\ \A y \in DOMAIN written : \A k \in 1..Len(written[y]) :
           ZeroRow(written[y][k].COUNTY_FIPS) => written[y][k].stats = <<>>

\* a written year holds the empty row of a county without weight (empty
\* intersection, and null geometry) beside a county with statistics
C5_Witness ==
    \E y \in DOMAIN written :
        /\ \E k \in 1..Len(written[y]) :
              /\ gdf[CountyIndex(written[y][k].COUNTY_FIPS)].geom = "ok"
              /\ ZeroRow(written[y][k].COUNTY_FIPS) /\ written[y][k].stats = <<>>
        /\ \E k \in 1..Len(written[y]) :
              /\ gdf[CountyIndex(written[y][k].COUNTY_FIPS)].geom = "null"
              /\ ZeroRow(written[y][k].COUNTY_FIPS) /\ written[y][k].stats = <<>>
        /\ \E k \in 1..Len(written[y]) :
              ~IsNaN(StatOf(written[y][k].stats, <<"prcp", "sum", "annual">>))

\* the dense weight row create_spatial_weight_matrix gives county c of the probe
ProbeRow(c) == CountyRow(probe.gdf[c])
\* grid cell g (flat, 1-based) lies inside the probe's field
InField(g) ==
    (g - 1) \div NLon < probe.field.shape[1] /\ (g - 1) % NLon < probe.field.shape[2]
\* cell g (flat, 1-based) of the probe's field; no value outside the field
ProbeCell(g) ==
    IF InField(g) THEN probe.field.at[<<(g - 1) \div NLon, (g - 1) % NLon>>] ELSE NaN

RECURSIVE WeightedSum(_, _)
\* sum over the cells g..NCells of weight times value, a NaN cell counting as 0
WeightedSum(c, g) ==
    IF g > NCells THEN 0
    ELSE ProbeRow(c)[g] * (IF IsNaN(ProbeCell(g)) THEN 0 ELSE ProbeCell(g)[1])
         + WeightedSum(c, g + 1)

\* C6: NaN isolation: for any field with any set of NaN cells, a county's
\* aggregate is NaN exactly when its own weight row sums to zero, and otherwise
\* is the weighted sum in which the NaN cells count as zero.
C6_NaNIsolation ==
    (probe.stage = "aggregated") =>
        \A c \in 1..Len(probe.gdf) :
            /\ IsNaN(probe.fresh[c]) <=> (SeqSum(ProbeRow(c)) = 0)
            /\ ~IsNaN(probe.fresh[c]) => probe.fresh[c] = Num(WeightedSum(c, 1))

\* a county with weight on a NaN cell and on a valid cell got a number
C6_Witness ==
    /\ probe.stage = "aggregated"
    /\ \E c \in 1..Len(probe.gdf) : \E g, h \in 1..NCells :
          /\ ProbeRow(c)[g] > 0 /\ IsNaN(ProbeCell(g))
          /\ ProbeRow(c)[h] > 0 /\ ~IsNaN(ProbeCell(h))
          /\ ~IsNaN(probe.fresh[c]) /\ probe.fresh[c][1] > 0

\* C7: missing months are excluded, not imputed: every written annual and
\* seasonal statistic is the mean (sum) over exactly the loaded months of its
\* window, the DJF window of year Y being December of Y-1, January and
\* February of Y.
C7_AvailableMonthsOnly == CellsMatch(Windows, TRUE)

\* C8: empty window: a statistic none of whose window's months was loaded is
\* absent (NaN) in the written row, never 0, the sums included.
C8_EmptyWindowNaN ==
    \A y \in DOMAIN written : \A k \in 1..Len(written[y]) :
        \A var \in CheckedVars : \A w \in Windows :
            Available(WindowFiles(y, w)) = {} =>
                IsNaN(StatOf(written[y][k].stats, <<var, Kind(var), w>>))

\* What does hold of the written statistics: each is the mean (sum) over the
\* loaded calendar months of its window inside the year of the file; December
\* of the year itself stands in the DJF of that year.
CalendarWindowsExact == CellsMatch(Windows, FALSE)

\* C9: cache round-trip: the matrix and the index list read back from the cache
\* file are the ones saved (shape, non-zero entries, ordered (row, col) list),
\* and the aggregates computed from them equal those of the fresh matrix.
C9_CacheRoundTrip ==
    /\ probe.stage \in {"loaded", "aggregated"} =>
          /\ probe.loaded_matrix = probe.weight_matrix
          /\ probe.loaded_indices = probe.grid_indices
    /\ probe.stage = "aggregated" => probe.cached = probe.fresh

\* a non-empty matrix went through the cache file and gave a county a value
C9_Witness ==
    /\ probe.stage = "aggregated"
    /\ probe.loaded_matrix.data # <<>>
    /\ Len(probe.loaded_indices) = NCells
    /\ \E c \in 1..Len(probe.gdf) : ~IsNaN(probe.cached[c]) /\ probe.cached[c][1] > 0

\* C10: idempotence: a second run over the same folders ends the way the first
\* did and has written the same per-year files, row for row and cell for cell.
C10_Idempotent ==
    (run = 2 /\ pc \in {"done", "crashed", "exited"}) =>
        /\ pc = first.pc
        /\ written = first.written
        /\ out_files = first.written

\* a second run that loaded the weights from the cache and wrote statistics
C10_Witness ==
    /\ run = 2 /\ pc = "done" /\ wsource = "loaded"
    /\ first.pc = "done"
    /\ \E y \in DOMAIN written : \E k \in 1..Len(written[y]) :
          ~IsNaN(StatOf(written[y][k].stats, <<"tas", "mean", "DJF">>))

\* ------------------------------------------------ the built weight matrix
ProbeBuilt == probe.stage \in {"built", "saved", "loaded", "aggregated"}

\* a county with geometry that lies wholly inside the area the cells tile: the
\* intersection areas with the cells add up to its area
Interior(county) ==
    county.geom = "ok" /\ county.area > 0 /\ SeqSum(county.inter) = county.area

\* C11: row-sum invariant: the weights of every county lying fully inside the
\* grid sum to 1 (Unit, in the units the weights are kept in).
C11_InteriorRowSumOne ==
    ProbeBuilt =>
        \A c \in 1..Len(probe.gdf) :
            Interior(probe.gdf[c]) => CsrRowSum(probe.weight_matrix, c) = Unit

\* What does hold of the built matrix: for a county none of whose intersection
\* calls raised, every stored weight is the intersection area over the county's
\* area, lies in [0, 1], and the row of an interior county sums to 1.
WeightsExactUnlessRaised ==
    ProbeBuilt =>
        \A c \in 1..Len(probe.gdf) :
            (probe.gdf[c].geom = "ok" /\ probe.gdf[c].area > 0 /\ probe.gdf[c].raiseAt = 0) =>
                /\ \A g \in 1..NCells :
                      /\ CsrAt(probe.weight_matrix, c, g - 1) * probe.gdf[c].area
                            = probe.gdf[c].inter[g] * Unit
                      /\ CsrAt(probe.weight_matrix, c, g - 1) \in 0..Unit
                /\ Interior(probe.gdf[c]) => CsrRowSum(probe.weight_matrix, c) = Unit

\* no gridded file has been opened
NoFileOpened == \A f \in CandidateFiles : disk[f] \notin {"ok", "corrupt"}

\* C12: configuration errors are fatal and early: when the boundary file is
\* missing or has no GEOID column, the run ends in the configuration exit, with
\* no weight matrix built or cached, no gridded file opened and nothing written.
C12_ConfigErrorsFatalEarly ==
    (cfg \in {"no_shapefile", "no_geoid"} /\ pc # "load_paths") =>
        /\ pc = "exited"
        /\ wsource = "none"
        /\ cache.state = "unknown"
        /\ NoFileOpened
        /\ out_files = << >>

\* What holds for the missing boundary file (and the other path errors of
\* load_paths): the run exits before anything else is done.
MissingPathsExitEarly ==
    (cfg \in {"no_config", "missing_key", "no_nldas_folder", "no_shapefile"}
     /\ pc # "load_paths") =>
        /\ pc = "exited"
        /\ wsource = "none" /\ cache.state = "unknown"
        /\ NoFileOpened /\ nldas_files = <<>> /\ out_files = << >>

\* the statistic columns of a frame of output rows
StatKeys(rows) ==
    UNION {{rows[k].stats[i][1] : i \in 1..Len(rows[k].stats)} : k \in 1..Len(rows)}

ExtensiveVars == {"prcp", "potevap"}
IntensiveVars == {"tas", "wind", "rh", "swrad", "lwrad", "psurf", "cape"}

\* the county's monthly values of the loaded calendar months of a window of year y
MonthValues(y, window, c) ==
    LET avail == SetToSeq(Available(CalendarFiles(y, window)))
    IN  AsTuple([k \in 1..Len(avail) |-> FileBase(avail[k]) * CountyFactor(c)[1]])

\* C13: mean versus sum: in every written file, for every annual and seasonal
\* window, precipitation and potential evaporation have a sum column only and
\* its value is the sum of the monthly values; every other variable has a mean
\* column only and its value is their mean; no variable has both columns.
C13_MeanVersusSum ==
    \A y \in DOMAIN written :
        /\ \A key \in StatKeys(written[y]) :
              /\ key[1] \in ExtensiveVars \cup IntensiveVars
              /\ key[3] \in Windows
              /\ key[2] = (IF key[1] \in ExtensiveVars THEN "sum" ELSE "mean")
              /\ \A other \in StatKeys(written[y]) :
                    (other[1] = key[1] /\ other[3] = key[3]) => other[2] = key[2]
        /\ \A k \in 1..Len(written[y]) : \A i \in 1..Len(written[y][k].stats) :
              LET key == written[y][k].stats[i][1]
                  values == MonthValues(y, key[3], CountyIndex(written[y][k].COUNTY_FIPS))
              IN  written[y][k].stats[i][2]
                      = (IF key[1] \in ExtensiveVars THEN NpSum(values) ELSE NpMean(values))

\* a written row with a temperature mean, a precipitation sum and a potential
\* evaporation sum over two or more loaded months
C13_Witness ==
    \E y \in DOMAIN written : \E k \in 1..Len(written[y]) :
        /\ Cardinality(Available(CalendarFiles(y, "annual"))) >= 2
        /\ ~IsNaN(StatOf(written[y][k].stats, <<"tas", "mean", "annual">>))
        /\ ~IsNaN(StatOf(written[y][k].stats, <<"prcp", "sum", "DJF">>))
        /\ ~IsNaN(StatOf(written[y][k].stats, <<"potevap", "sum", "annual">>))

\* year y has been processed to the end by this run
YearDone(y) == y < year \/ (y = year /\ pc \in {"next_year", "done"})

\* the rows of county index c in a frame of output rows
RowsOf(rows, c) == {k \in 1..Len(rows) : rows[k].COUNTY_FIPS = gdf[c].GEOID}

\* C14: a county-year without valid months is kept: once a year with at least
\* one loaded monthly file has been processed, its file holds, for a county
\* none of whose monthly values is a number, one row with the county's
\* identifier, the year and no statistic at all, and for every other county
\* one row with the statistics of its own monthly values.
C14_EmptyCountyYearKept ==
    \A y \in Years :
        (cfg = "ok" /\ YearDone(y) /\ Available(CalendarFiles(y, "annual")) # {}) =>
            /\ y \in DOMAIN written
            /\ \A c \in 1..Len(gdf) :
                  /\ Cardinality(RowsOf(written[y], c)) = 1
                  /\ \A k \in RowsOf(written[y], c) :
                        /\ written[y][k].year = y
                        /\ IsNaN(CountyFactor(c)) => written[y][k].stats = <<>>
                        /\ ~IsNaN(CountyFactor(c)) =>
                              \A var \in CheckedVars :
                                 /\ ~IsNaN(StatOf(written[y][k].stats,
                                                  <<var, Kind(var), "annual">>))
                                 /\ \A w \in Windows :
                                       StatOf(written[y][k].stats, <<var, Kind(var), w>>)
                                           = ExpectedStat(var, CalendarFiles(y, w), c)

\* a processed year whose file holds a row without statistics next to a row
\* with statistics
C14_Witness ==
    \E y \in DOMAIN written : \E k, j \in 1..Len(written[y]) :
        /\ YearDone(y)
        /\ written[y][k].stats = <<>>
        /\ written[y][j].stats # <<>>

\* the run has found monthly files of at least one year of the range
FilesFound == cfg = "ok" /\ YearKeys(nldas_files, 1) # {}

\* C15: final summary liveness: a run with a sound configuration that has found
\* monthly files of at least one year of the range has printed the closing
\* summary by the time it ends, whichever of these files could not be read.
C15_SummaryPrinted ==
    (FilesFound /\ pc \in {"done", "crashed"}) => summary

\* What holds: a run that ends without crashing has printed the summary, and a
\* run that has ended takes no further step.
SummaryUnlessCrashed == (FilesFound /\ pc = "done") => summary
HaltedIsFinal == [][pc \notin {"done", "crashed", "exited"}]_vars

\* the columns of a CSV file written from a frame of output rows
Columns(rows) ==
    IF rows = <<>> THEN {}
    ELSE {<<"COUNTY_FIPS">>, <<"year">>} \cup StatKeys(rows)

\* C16: same schema: once the combined CSV is saved, it has the same set of
\* columns as every per-year CSV written by the run, also when the variables in
\* the source files differ between the years.
C16_SameSchema ==
    (pc = "done" /\ combined.saved) =>
        \A y \in DOMAIN written : Columns(written[y]) = Columns(combined.rows)

\* What holds: the combined file has the columns of all the per-year files
\* taken together.
CombinedColumnsAreUnion ==
    (pc = "done" /\ combined.saved) =>
        Columns(combined.rows) = UNION {Columns(written[y]) : y \in DOMAIN written}

\* C17: one record per (county, year): in every per-year file of year Y each
\* county identifier has at most one row and every row has year = Y; the
\* December rows copied to year Y + 1 for the DJF carry are not among them.
C17_OneRecordPerCountyYear ==
    \A y \in DOMAIN written :
        /\ \A k \in 1..Len(written[y]) : written[y][k].year = y
        /\ \A k, j \in 1..Len(written[y]) :
              written[y][k].COUNTY_FIPS = written[y][j].COUNTY_FIPS => k = j

\* the file of a year whose December was loaded, and so copied to the next year
C17_Witness ==
    \E y \in DOMAIN written :
        /\ YearDone(y)
        /\ <<y, 12>> \in Available(CalendarFiles(y, "annual"))
        /\ Len(written[y]) = Len(gdf)

\* C18: weight range: in the matrix create_spatial_weight_matrix returns, every
\* stored weight lies in [0, 1], and for a county with a geometry of positive
\* area it is the intersection area of the cells reached divided by the
\* county's area, also when an intersection call raised part-way through.
C18_WeightRange ==
    ProbeBuilt => \A c \in 1..Len(probe.gdf) : \A g \in 1..NCells :
        /\ CsrAt(probe.weight_matrix, c, g - 1) \in 0..Unit
        /\ (probe.gdf[c].geom = "ok" /\ probe.gdf[c].area > 0
            /\ (probe.gdf[c].raiseAt = 0 \/ g < probe.gdf[c].raiseAt)) =>
               CsrAt(probe.weight_matrix, c, g - 1) * probe.gdf[c].area
                   = probe.gdf[c].inter[g] * Unit

\* the files a step of the year loop opens
OpenedByStep ==
    {f \in CandidateFiles : disk'[f] # disk[f] /\ disk'[f] \in {"ok", "corrupt"}}

\* C19: year ordering and streaming: the year being processed only grows; when
\* the year loop opens a monthly file, the file belongs to the year being
\* processed (or is the bootstrap December, in the start year) and the file of
\* every earlier year of the list has been written; and the monthly rows held
\* in memory are rows of the year being processed or, in the start year, of the
\* bootstrap December.
C19_YearOrderStreaming ==
    [][/\ year' # year => year' > year
       /\ pc \in {"prev_dec", "months"} =>
             \A f \in OpenedByStep :
                /\ f[1] = year \/ (f = PrevDec /\ year = START_YEAR)
                /\ \A y \in YearKeys(nldas_files, 1) : y < year => y \in DOMAIN written
       /\ \A k \in 1..Len(year_results') :
             \/ year_results'[k].year = year'
             \/ /\ year' = START_YEAR
                /\ year_results'[k].year = START_YEAR - 1
                /\ year_results'[k].month = 12]_vars

\* the second year is being processed, with monthly rows in memory, after the
\* first year was processed with the bootstrap December and written
C19_Witness ==
    /\ year = START_YEAR + 1
    /\ pc = "months"
    /\ year_results # <<>>
    /\ START_YEAR \in DOMAIN written
    /\ disk[PrevDec] = "ok"

\* The matrix w and the index list gi agree with the nlat x nlon grid of the
\* fields: one column and one index pair per cell, pair k (from 0) is
\* (k div nlon, k mod nlon), and the aggregator's grid vector takes its entry k
\* from that cell of the field (UnitField holds k + 1 in cell k).
FlatIndexed(w, gi) ==
    /\ w.shape[2] = NCells
    /\ Len(gi) = NCells
    /\ \A k \in 0..(NCells - 1) :
          /\ gi[k + 1] = <<k \div NLon, k % NLon>>
          /\ GridVector(UnitField, gi)[k + 1] = k + 1

\* C20: flat-index consistency: whenever the run holds a weight matrix, built
\* or reloaded from the cache, its column k refers to the cell
\* grid_indices[k] = (k div n_lon, k mod n_lon) of the fields being aggregated,
\* and aggregate_to_counties reads that cell for column k.
C20_FlatIndexConsistency ==
    wsource # "none" => FlatIndexed(weight_matrix, grid_indices)

\* What holds: the correspondence holds for a matrix built by this run and for
\* one reloaded from a cache file that was built over the same grid.
FlatIndexUnlessStale ==
    (wsource = "computed" \/ (wsource = "loaded" /\ cache.npz = FreshNpz)) =>
        FlatIndexed(weight_matrix, grid_indices)
FlatIndexRoundTrip ==
    /\ ProbeBuilt => FlatIndexed(probe.weight_matrix, probe.grid_indices)
    /\ probe.stage \in {"loaded", "aggregated"} =>
          FlatIndexed(probe.loaded_matrix, probe.loaded_indices)

\* the source variables each output variable is made from
Requires(var) ==
    CASE var = "tas"     -> {"Tair"}
      [] var = "wind"    -> {"Wind_E", "Wind_N"}
      [] var = "prcp"    -> {"Rainf"}
      [] var = "rh"      -> {"Qair", "Tair", "PSurf"}
      [] var = "swrad"   -> {"SWdown"}
      [] var = "lwrad"   -> {"LWdown"}
      [] var = "psurf"   -> {"PSurf"}
      [] var = "cape"    -> {"CAPE"}
      [] var = "potevap" -> {"PotEvap"}

\* the output variables the loaded file should yield
Expected(ds) ==
    {var \in ExtensiveVars \cup IntensiveVars : Requires(var) \subseteq DOMAIN ds.vars}

\* C21: variable presence: for a readable file the loader returns a mapping (not
\* None) that holds a variable exactly when all its source variables are in the
\* file; the month is not skipped: it yields one row per county whose value
\* columns are those of the variables present; and the statistics have columns
\* for the variables present only, one annual column for each.
C21_VariablePresence ==
    loader.stage # "off" /\ loader.ds.readable =>
        /\ loader.stage # "skipped"
        /\ loader.stage \in {"loaded", "rows", "stats"} =>
              /\ loader.monthly_data.ok
              /\ {loader.monthly_data.data[k][1] : k \in 1..Len(loader.monthly_data.data)}
                    = Expected(loader.ds)
              /\ Len(loader.monthly_data.data) = Cardinality(Expected(loader.ds))
        /\ loader.stage \in {"rows", "stats"} =>
              /\ Len(loader.rows) = Len(gdf)
              /\ \A r \in 1..Len(loader.rows) :
                    {loader.rows[r].cells[k][1] : k \in 1..Len(loader.rows[r].cells)}
                        = {ColName(var, LoaderFile[2]) : var \in Expected(loader.ds)}
        /\ loader.stage = "stats" =>
              /\ loader.stats.ok
              /\ {key[1] : key \in StatKeys(loader.stats.rows)} = Expected(loader.ds)
              /\ \A var \in Expected(loader.ds) :
                    <<var, IF var \in ExtensiveVars THEN "sum" ELSE "mean", "annual">>
                        \in StatKeys(loader.stats.rows)

\* a file with both wind components but neither temperature nor pressure has
\* gone through loading, aggregation and statistics
C21_Witness ==
    /\ loader.stage = "stats"
    /\ loader.ds.readable
    /\ {"Wind_E", "Wind_N", "Qair"} \subseteq DOMAIN loader.ds.vars
    /\ "Tair" \notin DOMAIN loader.ds.vars
    /\ "PSurf" \notin DOMAIN loader.ds.vars
    /\ StatKeys(loader.stats.rows) # {}

\* C22: compute once, then load: a step that computes the weight matrix is
\* taken only when no cache file exists, before any year of the run is
\* processed, and leaves the cache file written with the computed matrix; a run
\* that finds no cache file does not load one; while the cache file exists it is
\* never rewritten and the matrix is never computed; and no year is processed
\* before the matrix is there and the cache file is on disk.
C22_ComputeOnceThenLoad ==
    [][/\ (wsource' = "computed" /\ wsource # "computed") =>
             /\ pc = "weights" /\ cache.state # "exists"
             /\ year = 0 /\ written = << >> /\ year_results = <<>>
             /\ cache'.state = "exists"
             /\ cache'.npz = CacheSave(weight_matrix', grid_indices')
       /\ (pc = "weights" /\ cache.state = "absent") => wsource' # "loaded"
       /\ cache.state = "exists" =>
             /\ cache' = cache
             /\ ~(wsource' = "computed" /\ wsource # "computed")
       /\ pc' \in {"next_year", "prev_dec", "months"} =>
             wsource' # "none" /\ cache'.state = "exists"]_vars

\* a second run has loaded the cache file and processed its years to the end
C22_Witness ==
    /\ run = 2
    /\ first.pc = "done"
    /\ wsource = "loaded"
    /\ pc = "done"
    /\ summary

RECURSIVE RowsBefore(_)
\* the number of rows in the per-year files of the years before y
RowsBefore(y) ==
    IF y <= START_YEAR THEN 0
    ELSE RowsBefore(y - 1)
         + (IF (y - 1) \in DOMAIN written THEN Len(written[y - 1]) ELSE 0)

\* C23: the combined panel is the concatenation of the per-year outputs: when
\* the run has processed all its years, the combined file holds the rows of the
\* per-year files written by the run, year after year in ascending order, each
\* row as it was written, and nothing else; it is saved exactly when some
\* per-year file was written.
C23_CombinedIsConcatenation ==
    pc = "done" =>
        /\ combined.saved <=> DOMAIN written # {}
        /\ Len(combined.rows) = RowsBefore(END_YEAR + 1)
        /\ \A y \in DOMAIN written : \A k \in 1..Len(written[y]) :
              combined.rows[RowsBefore(y) + k] = written[y][k]

\* a finished run that wrote the files of two years
C23_Witness ==
    /\ pc = "done"
    /\ combined.saved
    /\ Cardinality(DOMAIN written) >= 2
    /\ Len(combined.rows) > Len(written[START_YEAR])

\* the cells on which the stored matrix gives county c a weight
WeightedCells(c) == {g \in 1..NCells : CsrAt(probe.weight_matrix, c, g - 1) # 0}

\* the value of cell g the weighted sum uses: a NaN cell counts as 0
CellOrZero(g) == IF IsNaN(ProbeCell(g)) THEN 0 ELSE ProbeCell(g)[1]

RECURSIVE StoredDot(_, _)
\* sum over the cells g..NCells of stored weight times value, not renormalised
StoredDot(c, g) ==
    IF g > NCells THEN 0
    ELSE CsrAt(probe.weight_matrix, c, g - 1) * CellOrZero(g) + StoredDot(c, g + 1)

\* C24: aggregate_to_counties returns NaN for a county if and only if the
\* county's row of the weight matrix sums to exactly zero; a county with a
\* non-zero sum gets the number sum(weight * value) with the NaN cells counted
\* as 0 and no renormalisation, so a county all of whose weighted cells are NaN
\* gets 0.0.
C24_NaNIffZeroWeight ==
    probe.stage = "aggregated" =>
        \A c \in 1..Len(probe.gdf) :
            /\ IsNaN(probe.fresh[c]) <=> CsrRowSum(probe.weight_matrix, c) = 0
            /\ CsrRowSum(probe.weight_matrix, c) # 0 =>
                  /\ probe.fresh[c] = Num(StoredDot(c, 1))
                  /\ (\A g \in WeightedCells(c) : IsNaN(ProbeCell(g))) =>
                        probe.fresh[c] = Num(0)

\* a county whose weighted cells are all NaN got 0.0, next to a county with a
\* weighted valid cell
C24_Witness ==
    /\ probe.stage = "aggregated"
    /\ \E c, d \in 1..Len(probe.gdf) :
          /\ WeightedCells(c) # {}
          /\ \A g \in WeightedCells(c) : IsNaN(ProbeCell(g))
          /\ probe.fresh[c] = Num(0)
          /\ ~IsNaN(probe.fresh[d]) /\ probe.fresh[d] # Num(0)

RECURSIVE InFieldDot(_, _)
\* sum of stored weight times value over the cells g..NCells that lie inside
\* the field
InFieldDot(c, g) ==
    IF g > NCells THEN 0
    ELSE (IF InField(g) /\ ~IsNaN(probe.field.at[<<(g - 1) \div NLon, (g - 1) % NLon>>])
          THEN CsrAt(probe.weight_matrix, c, g - 1)
               * probe.field.at[<<(g - 1) \div NLon, (g - 1) % NLon>>][1]
          ELSE 0)
         + InFieldDot(c, g + 1)

\* C27: a grid/field shape mismatch is silent: when the field has fewer columns
\* than the grid the weights were built for, aggregate_to_counties still
\* returns one value per county, and a grid cell outside the field contributes
\* 0 to every county's weighted sum.
C27_ShapeMismatchSilent ==
    (probe.stage = "aggregated" /\ \E g \in 1..NCells : ~InField(g)) =>
        /\ Len(probe.fresh) = Len(probe.gdf)
        /\ \A c \in 1..Len(probe.gdf) :
              probe.fresh[c] = IF CsrRowSum(probe.weight_matrix, c) = 0 THEN NaN
                               ELSE Num(InFieldDot(c, 1))

\* a county with weight on a cell outside the field and on a valid cell inside it
C27_Witness ==
    /\ probe.stage = "aggregated"
    /\ \E c \in 1..Len(probe.gdf) : \E g, h \in WeightedCells(c) :
          /\ ~InField(g)
          /\ InField(h) /\ ~IsNaN(ProbeCell(h))
          /\ ~IsNaN(probe.fresh[c]) /\ probe.fresh[c] # Num(0)

\* the readable monthly files of calendar year y, in month order
OwnFiles(y) ==
    SelectSeq(YearFiles(y), LAMBDA f : disk[f] = "ok")

\* The per-year output computed from the readable files of calendar year y and
\* the weights alone: no other file enters it.
YearOutput(y) ==
    LET rows == Flatten([k \in 1..Len(OwnFiles(y)) |->
                            MonthRows(OwnFiles(y)[k], Dataset(OwnFiles(y)[k]))])
    IN  RenameRows(calculate_annual_seasonal_stats(rows, TRUE, y).rows)

\* the run has ended with weights in hand
RunOver == cfg = "ok" /\ wsource # "none" /\ pc \in {"done", "crashed"}

\* C25: cross-year independence: the output of year Y is a function of the
\* monthly files of calendar year Y and of the weight matrix only.  Whatever
\* the files of the other years are, when the run has ended every year of the
\* list has its output written, equal to the one computed from that year's own
\* files alone, unless all of that year's own files were found unreadable.
C25_CrossYearIndependence ==
    RunOver =>
        \A y \in YearKeys(nldas_files, 1) :
            \/ y \in DOMAIN written /\ written[y] = YearOutput(y)
            \/ \A k \in 1..Len(YearFiles(y)) : disk[YearFiles(y)[k]] = "corrupt"

\* What holds: a per-year output that is written is the one computed from the
\* year's own files alone.
WrittenFromOwnYear ==
    \A y \in DOMAIN written : written[y] = YearOutput(y)

\* every annual statistic of the frame's result is the mean (sum) over the
\* frame's months of the calendar year of its row
AnnualOfOwnYear ==
    \A k \in 1..Len(frame.out.rows) : \A var \in CheckedVars :
        StatOf(frame.out.rows[k].stats, <<var, Kind(var), "annual">>)
            = ExpectedStat(var, CalendarFiles(frame.out.rows[k].year, "annual"),
                           CountyIndex(frame.out.rows[k].GEOID))

\* C26: annual window: the annual statistic of (county, Y) aggregates the values
\* of months 1-12 of calendar year Y only, the December carried over from Y-1
\* never being counted, both with target_year = Y and with target_year = None
\* on a frame of several years.
C26_AnnualWindow ==
    frame.stage = "done" => AnnualOfOwnYear

\* What holds: with target_year given, the annual statistic is that of the
\* calendar year.
AnnualExactWithTarget ==
    (frame.stage = "done" /\ frame.has_target) => AnnualOfOwnYear

\* ---------------------------------------------------------------------------
\* Download_EPA_AIR.py: download_file, download_year and the year loop of main.
\* A file of the destination directory is a record: whether it exists, and the
\* chunks it holds. The body the server sends is the chunks 1..total; a file
\* that was there before the call holds the chunk 0. Every path download_year
\* builds carries the year (basename = file_part_year), so dl.fs holds the
\* files of the year in hand, as they are found when its call begins.
\* ---------------------------------------------------------------------------
DefaultRetries == 3
MaxRetries == 3
MaxChunks == 2
NDlYears == 2

DlYears == 1..NDlYears
Exts == <<".zip", ".rar", ".csv">>

\* dest_path.with_suffix(dest_path.suffix + ".part")
tmp_path(dest_path) == dest_path \o ".part"

DlNames == {Exts[i] : i \in 1..Len(Exts)} \cup {tmp_path(Exts[i]) : i \in 1..Len(Exts)}

Absent == [exists |-> FALSE, data |-> <<>>]
FileOf(data) == [exists |-> TRUE, data |-> data]
OldFile == FileOf(<<0>>)
Body(total) == [i \in 1..total |-> i]

\* path.exists() and path.stat().st_size > 0
NonEmpty(fs, name) == fs[name].exists /\ Len(fs[name].data) > 0

\* the three tests at the head of download_year
AlreadyThere(fs) ==
    NonEmpty(fs, ".csv") \/ NonEmpty(fs, ".zip") \/ NonEmpty(fs, ".rar")

Retryable == {"HTTP404", "HTTP500", "URLError"}
Outcomes == {"ok", "Other"} \cup Retryable

ContinuesAlways(exc) == TRUE

\* except error.HTTPError as http_err: if http_err.code == 404: continue
Continues(exc) == exc = "HTTP404"

EmptyDir == [n \in DlNames |-> Absent]

\* what the directory holds for a year when its call begins: nothing, an
\* empty CSV, or a CSV, ZIP or RAR left by an earlier run
YearStarts == {"none", "empty_csv", ".csv", ".zip", ".rar"}

StartDir(start) ==
    [n \in DlNames |->
        IF start = "empty_csv" /\ n = ".csv" THEN FileOf(<<>>)
        ELSE IF start = n THEN OldFile
        ELSE Absent]

InitIdle ==
    /\ run = 1
    /\ cfg = "ok"
    /\ disk = [f \in CandidateFiles |-> "absent"]
    /\ nldas_files = <<>>
    /\ cache = [state |-> "exists",
                npz |-> CacheSave(FreshWeights.weight_matrix, FreshWeights.grid_indices)]
    /\ gdf = Boundaries(NCells)
    /\ weight_matrix = FreshWeights.weight_matrix
    /\ grid_indices = FreshWeights.grid_indices
    /\ wsource = "computed"
    /\ year_queue = <<>>
    /\ year = 0
    /\ file_idx = 0
    /\ year_results = <<>>
    /\ all_results = <<>>
    /\ out_files = << >>
    /\ written = << >>
    /\ combined = [saved |-> FALSE, rows |-> <<>>]
    /\ summary = FALSE
    /\ first = [pc |-> "none", written |-> << >>]
    /\ probe = NoProbe
    /\ loader = SideOff
    /\ frame = SideOff

\* download_file(url, dest_path, retries) called on its own: the destination
\* is absent, empty or an older file
InitDownloadFile ==
    /\ pc = "download_file"
    /\ InitIdle
    /\ vif = SideOff
    /\ \E retries \in 0..MaxRetries : \E e \in 1..Len(Exts) :
       \E orig \in {Absent, FileOf(<<>>), OldFile} :
          dl = [stage |-> "urlopen", mode |-> "file", year |-> 1, ext |-> e,
                retries |-> retries, attempt |-> 1, total |-> 0, exc |-> "none",
                log |-> <<>>, orig |-> orig,
                fs |-> [EmptyDir EXCEPT ![Exts[e]] = orig], start |-> "none",
                tried |-> <<>>, requests |-> 0,
                result |-> [y \in DlYears |-> "none"]]

\* main after parse_args and ensure_destination_dir, before the year loop
InitDownload ==
    /\ pc = "download"
    /\ InitIdle
    /\ vif = SideOff
    /\    dl = [stage |-> "main", mode |-> "main", year |-> 1, ext |-> 1,
                retries |-> DefaultRetries, attempt |-> 1, total |-> 0, exc |-> "none",
                log |-> <<>>, orig |-> Absent,
                fs |-> EmptyDir, start |-> "none",
                tried |-> <<>>, requests |-> 0,
                result |-> [y \in DlYears |-> "none"]]

Dest == Exts[dl.ext]
Tmp == tmp_path(Exts[dl.ext])

dlFrame == <<coreVars, probe, loader, frame, vif>>

\* for attempt in range(1, retries + 1) with nothing left to iterate: the
\* function falls off its end and returns None
LoopExhausted ==
    /\ dl.stage = "urlopen"
    /\ dl.attempt > dl.retries
    /\ dl' = [dl EXCEPT !.stage = "returned"]
    /\ UNCHANGED dlFrame

\* one attempt up to the opening of the response and of the .part file:
\* request.urlopen(url) raises HTTPError or URLError (slept on and retried,
\* re-raised on the last attempt), something else raises (never caught), or
\* the response opens and tmp_path.open("wb") truncates the .part file
Urlopen ==
    /\ dl.stage = "urlopen"
    /\ dl.attempt <= dl.retries
    /\ \E outcome \in Outcomes : \E total \in 0..MaxChunks :
          /\ outcome # "ok" => total = 0
          /\ dl' = [dl EXCEPT
                !.log = Append(dl.log, outcome),
                !.requests = dl.requests + 1,
                !.total = total,
                !.fs = IF outcome = "ok"
                       THEN [dl.fs EXCEPT ![Tmp] = FileOf(<<>>)] ELSE dl.fs,
                !.attempt = IF outcome \in Retryable /\ dl.attempt < dl.retries
                            THEN dl.attempt + 1 ELSE dl.attempt,
                !.exc = IF outcome = "ok" \/ (outcome \in Retryable /\ dl.attempt < dl.retries)
                        THEN "none" ELSE outcome,
                !.stage = IF outcome = "ok" THEN "read"
                          ELSE IF outcome \in Retryable /\ dl.attempt < dl.retries
                          THEN "urlopen" ELSE "raised"]
    /\ UNCHANGED dlFrame

\* chunk = resp.read(chunk_size); out.write(chunk), or the connection breaks
\* under the read, which is neither an HTTPError nor a URLError
ReadChunk ==
    /\ dl.stage = "read"
    /\ Len(dl.fs[Tmp].data) < dl.total
    /\ \/ dl' = [dl EXCEPT !.fs[Tmp] =
                    FileOf(Append(dl.fs[Tmp].data, Len(dl.fs[Tmp].data) + 1))]
       \/ dl' = [dl EXCEPT !.stage = "raised", !.exc = "Other"]
    /\ UNCHANGED dlFrame

\* if not chunk: break; tmp_path.replace(dest_path); return. resp.read(n)
\* returns b"" at the end of the body, and also when the peer closes the
\* connection before Content-Length is satisfied (http.client raises
\* IncompleteRead only for a read without an amount), so the loop ends on a
\* short body as it does on a whole one
Replace ==
    /\ dl.stage = "read"
    /\ dl' = [dl EXCEPT !.stage = "returned",
                        !.fs = [[dl.fs EXCEPT ![Tmp] = Absent] EXCEPT ![Dest] = dl.fs[Tmp]]]
    /\ UNCHANGED dlFrame

NextDownloadFile == LoopExhausted \/ Urlopen \/ ReadChunk \/ Replace

SpecDownloadFile == InitDownloadFile /\ [][NextDownloadFile]_vars

\* ---------------------------------------------------------------------------
\* download_year and the year loop of main. dl.tried and dl.requests are the
\* download_file calls and the urlopen calls of the latest download_year call;
\* dl.result keeps how each year's call ended.
\* ---------------------------------------------------------------------------
\* the locals of a download_file call are gone once it has returned or raised
CallOver(d) ==
    [d EXCEPT !.attempt = 1, !.total = 0, !.exc = "none", !.log = <<>>, !.orig = Absent]

\* download_year is over for this year, with a return or with an exception
\* that main's except clause prints: the loop of main goes on
NextYear(d, res) ==
    [CallOver(d) EXCEPT !.stage = "main", !.result[d.year] = res,
                        !.year = d.year + 1, !.ext = 1]

\* for year in range(args.start, args.end + 1) is over: return 0
MainReturn ==
    /\ dl.stage = "main"
    /\ dl.year > NDlYears
    /\ dl' = [dl EXCEPT !.stage = "done"]
    /\ UNCHANGED dlFrame

\* download_year returns at one of its three [SKIP] tests
SkipYear ==
    /\ dl.stage = "main"
    /\ dl.year <= NDlYears
    /\ \E start \in YearStarts :
          /\ AlreadyThere(StartDir(start))
          /\ dl' = NextYear([dl EXCEPT !.fs = StartDir(start), !.start = start,
                                       !.tried = <<>>, !.requests = 0], "skipped")
    /\ UNCHANGED dlFrame

\* download_year passes the three tests and enters the loop over extensions
StartYear ==
    /\ dl.stage = "main"
    /\ dl.year <= NDlYears
    /\ \E start \in YearStarts :
          /\ ~AlreadyThere(StartDir(start))
          /\ dl' = [dl EXCEPT !.stage = "year", !.ext = 1,
                              !.fs = StartDir(start), !.start = start,
                              !.tried = <<>>, !.requests = 0]
    /\ UNCHANGED dlFrame

\* the next extension of the loop: download_file(url, out_path)
TryExt ==
    /\ dl.stage = "year"
    /\ dl.ext <= Len(Exts)
    /\ dl' = [dl EXCEPT !.stage = "urlopen", !.attempt = 1, !.total = 0,
                        !.exc = "none", !.log = <<>>, !.orig = dl.fs[Dest]]
    /\ UNCHANGED dlFrame

\* the loop ran out of extensions: the last [FAIL] line, a normal return
NoFormat ==
    /\ dl.stage = "year"
    /\ dl.ext > Len(Exts)
    /\ dl' = NextYear(dl, "missing")
    /\ UNCHANGED dlFrame

\* download_file returned: [SAVE]; an archive is extracted (the CSV appears,
\* as a later run will find it, or the archive holds another name) and
\* unlinked, or extract_archive raises, which leaves the archive and reaches
\* main's except; then return
Saved ==
    /\ dl.stage = "returned"
    /\ dl.mode = "main"
    /\ \E extracted \in {"csv", "other", "raises"} :
         \E d \in {[dl EXCEPT !.tried =
                        Append(dl.tried, [ext |-> Exts[dl.ext], exc |-> "ok"])]} :
          /\ Exts[dl.ext] = ".csv" => extracted = "csv"
          /\ dl' = IF Exts[dl.ext] = ".csv" THEN NextYear(d, "saved")
                   ELSE IF extracted = "raises" THEN NextYear(d, "failed")
                   ELSE NextYear(
                          [d EXCEPT !.fs = [[dl.fs EXCEPT ![".csv"] =
                                               IF extracted = "csv" THEN OldFile
                                               ELSE dl.fs[".csv"]]
                                            EXCEPT ![Dest] = Absent]],
                          "saved")
    /\ UNCHANGED dlFrame

\* download_file raised: HTTP 404 goes on to the next extension, anything
\* else is re-raised and caught by main, which goes on to the next year
Caught ==
    /\ dl.stage = "raised"
    /\ dl.mode = "main"
    /\ \E d \in {[dl EXCEPT !.tried =
                      Append(dl.tried, [ext |-> Exts[dl.ext], exc |-> dl.exc])]} :
          dl' = IF Continues(dl.exc)
                THEN [CallOver(d) EXCEPT !.stage = "year", !.ext = dl.ext + 1]
                ELSE NextYear(d, "failed")
    /\ UNCHANGED dlFrame

NextDownload ==
    \/ MainReturn \/ SkipYear \/ StartYear \/ TryExt \/ NoFormat
    \/ Urlopen \/ ReadChunk \/ Replace \/ Saved \/ Caught

SpecDownload == InitDownload /\ [][NextDownload]_vars

\* ---------------------------------------------------------------------------
\* PCA.py: select_variables_with_vif. A VIF is a float: a number, inf (the
\* regression on the other columns is exact) or nan (a constant column).
\* What variance_inflation_factor returns for the columns in hand is an input
\* of the loop: the data are fixed, and no set of columns is computed twice.
\* vif.passes counts the passes of while True that were begun.
\* ---------------------------------------------------------------------------
DefaultThreshold == 10
NVifVars == 3

VifNames == 1..NVifVars
NumVif(v) == [k |-> "num", v |-> v]
InfVif == [k |-> "inf", v |-> 0]
NanVif == [k |-> "nan", v |-> 0]
VifValues == {NanVif, InfVif} \cup {NumVif(v) : v \in {1, DefaultThreshold, DefaultThreshold + 1}}
Thresholds == {0, DefaultThreshold}

\* a > b for floats, b a number: False for nan
Above(a, b) == a.k = "inf" \/ (a.k = "num" /\ a.v > b)

\* a >= b for floats that are not nan
AtLeast(a, b) == a.k = "inf" \/ (a.k = "num" /\ b.k = "num" /\ a.v >= b.v)

\* Series.max(): nan values are skipped, nan when nothing is left
SeriesMax(vifs) ==
    LET real == {i \in 1..Len(vifs) : vifs[i].k # "nan"}
    IN  IF real = {} THEN NanVif
        ELSE vifs[CHOOSE i \in real : \A j \in real : AtLeast(vifs[i], vifs[j])]

FirstRowAny(vifs) == {i \in 1..Len(vifs) : vifs[i].k # "nan"}

\* sort_values("VIF", ascending=False).iloc[0]: a row holding the largest
\* VIF, nan rows last; which one among equal VIFs the sort does not say
FirstRow(vifs) ==
    {i \in 1..Len(vifs) :
        /\ vifs[i].k # "nan"
        /\ \A j \in 1..Len(vifs) : vifs[j].k # "nan" => AtLeast(vifs[i], vifs[j])}

\* list.remove(x): the first occurrence goes
ListRemove(seq, x) ==
    LET at == CHOOSE i \in 1..Len(seq) : seq[i] = x /\ \A j \in 1..(i - 1) : seq[j] # x
    IN  [i \in 1..(Len(seq) - 1) |-> IF i < at THEN seq[i] ELSE seq[i + 1]]

\* the lists of at most NVifVars column names, one list for each pattern of
\* repeated names (the names themselves play no part)
VariableLists ==
    {l \in UNION {[1..n -> VifNames] : n \in 0..NVifVars} :
        \A i \in 1..Len(l) : l[i] = 1 \/ \E j \in 1..(i - 1) : l[j] >= l[i] - 1}

\* the call select_variables_with_vif(df, variables, threshold); complete says
\* whether df[variables].dropna() keeps any row
InitVif ==
    /\ pc = "vif"
    /\ InitIdle
    /\ dl = SideOff
    /\ \E variables \in VariableLists : \E threshold \in Thresholds : \E complete \in BOOLEAN :
          vif = [stage |-> "call", variables |-> AsTuple(variables), threshold |-> threshold,
                 complete |-> complete, selected_vars |-> <<>>, vif_data |-> <<>>,
                 vif_log |-> <<>>, passes |-> 0]

vifFrame == <<coreVars, probe, loader, frame, dl>>

\* dropna, StandardScaler().fit_transform: sklearn refuses an array with no
\* column or no row (ValueError); otherwise selected_vars = all the columns
Scale ==
    /\ vif.stage = "call"
    /\ vif' = IF vif.variables = <<>> \/ ~vif.complete
              THEN [vif EXCEPT !.stage = "raised"]
              ELSE [vif EXCEPT !.stage = "loop", !.selected_vars = vif.variables]
    /\ UNCHANGED vifFrame

\* the head of a pass of while True: vif_data = pd.DataFrame() and its two
\* columns, one VIF for each selected variable
ComputeVif ==
    /\ vif.stage = "loop"
    /\ \E vifs \in [1..Len(vif.selected_vars) -> VifValues] :
          vif' = [vif EXCEPT !.stage = "computed", !.passes = vif.passes + 1,
                             !.vif_data = AsTuple(vifs)]
    /\ UNCHANGED vifFrame

\* variance_inflation_factor raises (the least-squares fit fails)
VifRaises ==
    /\ vif.stage = "loop"
    /\ vif.selected_vars # <<>>
    /\ vif' = [vif EXCEPT !.stage = "raised", !.passes = vif.passes + 1, !.vif_data = <<>>]
    /\ UNCHANGED vifFrame

\* max_vif > threshold: the variable of the first sorted row is logged as
\* Removed and removed from selected_vars; back to the head of the loop
RemoveMax ==
    /\ vif.stage = "computed"
    /\ Above(SeriesMax(vif.vif_data), vif.threshold)
    /\ \E row \in FirstRow(vif.vif_data) :
          vif' = [vif EXCEPT
              !.stage = "loop",
              !.vif_data = <<>>,
              !.vif_log = Append(vif.vif_log,
                             [Variable |-> vif.selected_vars[row],
                              VIF |-> SeriesMax(vif.vif_data), Status |-> "Removed"]),
              !.selected_vars = AsTuple(ListRemove(vif.selected_vars,
                                                   vif.selected_vars[row]))]
    /\ UNCHANGED vifFrame

\* max_vif > threshold is False: every row is logged as Kept, break, return
Exit ==
    /\ vif.stage = "computed"
    /\ ~Above(SeriesMax(vif.vif_data), vif.threshold)
    /\ vif' = [vif EXCEPT
          !.stage = "done",
          !.vif_log = vif.vif_log \o
              AsTuple([i \in 1..Len(vif.vif_data) |->
                  [Variable |-> vif.selected_vars[i], VIF |-> vif.vif_data[i],
                   Status |-> "Kept"]])]
    /\ UNCHANGED vifFrame

NextVif == Scale \/ ComputeVif \/ VifRaises \/ RemoveMax \/ Exit

SpecVif == InitVif /\ [][NextVif]_vars

InDownloadFile == dl.stage \in {"urlopen", "read", "returned", "raised"}

\* C28: download_file makes at most `retries` attempts and every attempt but
\* the last one made ended in an HTTPError or URLError; the destination holds
\* what it held before the call at every point except after the rename, when
\* it holds the whole body that was streamed into the .part file; when the
\* last allowed attempt ends in HTTPError or URLError that error is raised,
\* and whenever the call raises the destination is what it was.
C28_AtomicBoundedDownload ==
    InDownloadFile =>
        /\ Len(dl.log) <= dl.retries
        /\ \A k \in 1..(Len(dl.log) - 1) : dl.log[k] \in Retryable
        /\ \/ dl.fs[Dest] = dl.orig
           \/ /\ dl.stage = "returned"
              /\ dl.log # <<>> /\ dl.log[Len(dl.log)] = "ok"
              /\ dl.fs[Dest] = FileOf(Body(dl.total))
        /\ (dl.log # <<>> /\ Len(dl.log) = dl.retries /\ dl.log[Len(dl.log)] \in Retryable)
               => (dl.stage = "raised" /\ dl.exc = dl.log[Len(dl.log)])
        /\ dl.stage = "raised" => dl.fs[Dest] = dl.orig

\* what holds of C28: the attempts are bounded and follow only HTTPError or
\* URLError, the destination changes only in the rename, to what the .part
\* file held (a prefix of the body), and a call that raises leaves it alone
DownloadFileBoundedAndRenamed ==
    InDownloadFile =>
        /\ Len(dl.log) <= dl.retries
        /\ \A k \in 1..(Len(dl.log) - 1) : dl.log[k] \in Retryable
        /\ \/ dl.fs[Dest] = dl.orig
           \/ /\ dl.stage = "returned"
              /\ dl.log # <<>> /\ dl.log[Len(dl.log)] = "ok"
              /\ \E n \in 0..dl.total : dl.fs[Dest] = FileOf(Body(n))
        /\ (dl.log # <<>> /\ Len(dl.log) = dl.retries /\ dl.log[Len(dl.log)] \in Retryable)
               => (dl.stage = "raised" /\ dl.exc = dl.log[Len(dl.log)])
        /\ dl.stage = "raised" => dl.fs[Dest] = dl.orig

ReplacedAfterRetries ==
    /\ dl.stage = "returned"
    /\ dl.retries = DefaultRetries
    /\ Len(dl.log) = dl.retries
    /\ dl.orig = OldFile
    /\ dl.total = MaxChunks
    /\ dl.fs[Dest] = FileOf(Body(MaxChunks))

\* the other end of C28: the last attempt failed after the earlier ones had
\* been retried, and an older destination file is still in place
RaisedAfterLastAttempt ==
    /\ dl.stage = "raised"
    /\ Len(dl.log) = DefaultRetries
    /\ dl.orig = OldFile
    /\ dl.fs[Dest] = OldFile

\* the year of the latest download_year call, 0 before the first
CallYear == IF dl.stage \in {"main", "done"} THEN dl.year - 1 ELSE dl.year
YearOver == dl.stage \in {"main", "done"}

\* how a download_year call that made requests may end, given its last
\* download_file call
EndsAs(last, n) ==
    IF last.exc = "ok" THEN {"saved", "failed"}
    ELSE IF last.exc = "HTTP404" /\ n = Len(Exts) THEN {"missing"}
    ELSE {"failed"}

\* C29: a download_year call that finds a non-empty CSV, ZIP or RAR makes no
\* request; otherwise it makes requests, its download_file calls are for
\* .zip, .rar, .csv in that order, every call but the last one ended in HTTP
\* 404 (so a success or any other failure is the last call of the year), a
\* failure other than 404 ends the year as failed, and whatever way a year
\* ended main has gone on: every earlier year has a result.
C29_SkipOrderAndContinue ==
    (dl.stage # "off" /\ dl.mode = "main") =>
        /\ \A y \in DlYears : y < dl.year => dl.result[y] # "none"
        /\ dl.stage = "done" => dl.year = NDlYears + 1
        /\ CallYear >= 1 =>
            /\ AlreadyThere(StartDir(dl.start)) =>
                  /\ dl.requests = 0 /\ dl.tried = <<>>
                  /\ dl.result[CallYear] = "skipped"
            /\ (~AlreadyThere(StartDir(dl.start)) /\ YearOver) =>
                  /\ dl.requests > 0 /\ dl.tried # <<>>
                  /\ dl.result[CallYear] \in EndsAs(dl.tried[Len(dl.tried)], Len(dl.tried))
            /\ \A k \in 1..Len(dl.tried) :
                  /\ dl.tried[k].ext = Exts[k]
                  /\ k < Len(dl.tried) => dl.tried[k].exc = "HTTP404"
            /\ ~YearOver => dl.ext = Len(dl.tried) + 1

C29_Witness ==
    /\ dl.stage = "done"
    /\ dl.mode = "main"
    /\ dl.result[1] = "failed"
    /\ dl.result[NDlYears] = "saved"
    /\ Len(dl.tried) = Len(Exts)
    /\ dl.tried[Len(Exts)].exc = "ok"

\* a year skipped after a failed one, and a year for which no format exists
SkippedAfterFailure ==
    /\ dl.stage = "done"
    /\ dl.mode = "main"
    /\ dl.result[1] = "failed"
    /\ dl.result[NDlYears] = "skipped"

NoFormatFound ==
    /\ dl.stage = "done"
    /\ dl.mode = "main"
    /\ dl.result[NDlYears] = "missing"
    /\ dl.requests = Len(Exts) * DefaultRetries

VifHalted == vif.stage \in {"done", "raised"}

Removals == Len(SelectSeq(vif.vif_log, LAMBDA e : e.Status = "Removed"))

\* the state part of C30: what was removed and what is left add up to the
\* list passed in, the passes begun are the removals and the one pass that
\* ended the call, so never more than len(variables) + 1, every removal was
\* of a VIF above the threshold, and at the normal exit no remaining variable
\* has a VIF above the threshold
VifCounts ==
    /\ vif.stage \in {"loop", "computed", "done"} =>
          /\ Removals + Len(vif.selected_vars) = Len(vif.variables)
          /\ Removals <= Len(vif.variables)
    /\ vif.passes <= Len(vif.variables) + 1
    /\ vif.passes = Removals + (IF vif.stage \in {"computed", "done"} THEN 1 ELSE 0)
                             + (IF vif.stage = "raised" /\ vif.selected_vars # <<>> THEN 1 ELSE 0)
    /\ \A k \in 1..Len(vif.vif_log) :
          vif.vif_log[k].Status = "Removed" => Above(vif.vif_log[k].VIF, vif.threshold)
    /\ vif.stage = "done" =>
          /\ Len(vif.vif_data) = Len(vif.selected_vars)
          /\ \A i \in 1..Len(vif.vif_data) : ~Above(vif.vif_data[i], vif.threshold)

\* the step part of C30: a pass of the loop exits, or removes exactly one
\* variable, one whose VIF in that pass is above the threshold and is the
\* largest; nothing follows the exit
VifPass ==
    /\ ~VifHalted
    /\ vif.stage = "loop" => vif'.selected_vars = vif.selected_vars
    /\ vif.stage = "computed" =>
        \/ vif'.stage = "done" /\ vif'.selected_vars = vif.selected_vars
        \/ /\ vif'.stage = "loop"
           /\ Len(vif'.selected_vars) = Len(vif.selected_vars) - 1
           /\ \E row \in 1..Len(vif.selected_vars) :
                 /\ vif'.selected_vars = ListRemove(vif.selected_vars, vif.selected_vars[row])
                 /\ Above(vif.vif_data[row], vif.threshold)
                 /\ \A j \in 1..Len(vif.selected_vars) :
                       vif.vif_data[j].k # "nan" => AtLeast(vif.vif_data[row], vif.vif_data[j])

\* C30: select_variables_with_vif terminates for every variable list: each
\* pass of the loop either exits or removes exactly one variable, the one
\* with the largest VIF, which is above the threshold; there are at most
\* len(variables) removals, so at most len(variables) + 1 passes; at the
\* exit no remaining variable has a VIF above the threshold.
C30_VifTerminates ==
    /\ []VifCounts
    /\ [][VifPass]_vars

C30_Witness ==
    /\ vif.stage = "done"
    /\ Len(vif.variables) = NVifVars
    /\ Removals = NVifVars - 1
    /\ Len(vif.selected_vars) = 1
    /\ vif.vif_data[1] = NumVif(1)

\* every variable removed, which a threshold below 1 allows: the pass over
\* the empty list exits
AllRemoved ==
    /\ vif.stage = "done"
    /\ Len(vif.variables) = NVifVars
    /\ Removals = NVifVars
    /\ vif.selected_vars = <<>>

====
